---- MODULE Spec2Model ----
(***************************************************************************)
(* catberry-locator: the Service Locator (src/lib/ServiceLocator.js), the  *)
(* earlier dependency-injecting Service Locator (src/unnamed/part_000) and *)
(* the constructor tokenizer (src/lib/ConstructorTokenizer.js).            *)
(*                                                                         *)
(* JavaScript objects have identity.  Instances live in `heap` and are     *)
(* named by their index; registration descriptors live in `descriptors`    *)
(* and are named by their index; a registration list holds descriptor      *)
(* indices.  A handler is evaluated as a pure operator over the record     *)
(* [registrations, descriptors, heap] and returns an outcome               *)
(* [s, ret, err]; the action commits the outcome's state.                  *)
(***************************************************************************)
EXTENDS Integers, Sequences, FiniteSets, TLC

VARIABLES
    registrations,  \* this._registrations of every locator: per type name, has (the key exists) and list
    descriptors,    \* the registration descriptor objects, by identity (index)
    heap,           \* the instances, by identity (index); `by` is history: the descriptor that constructed it
    hist,           \* history: what was registered per locator and type name, oldest first
    tokenizer,      \* the ConstructorTokenizer object a program scans with: its fields
    tokens          \* history: the tokens its next() calls returned, oldest first

vars == <<registrations, descriptors, heap, hist, tokenizer, tokens>>

----------------------------------------------------------------------------
(* Bounds of the model *)

MaxDesc == 2     \* descriptors created over a run
MaxHeap == 3     \* instances created over a run
MaxDepth == 3    \* nested resolve calls the call stack holds
MaxHeapDI == 2   \* instances created over a run of the parameter-injecting locator
MaxPieces == 5   \* pieces a generated source text is put together from
MaxRepeat == 3   \* next() calls that return a terminal token, over a run
MaxDescReentrant == 4  \* descriptors created over a run whose constructors register too

----------------------------------------------------------------------------
(* Values.  A string is the sequence of its characters. *)

Locators == {1, 2}
CatType == <<"c", "a", "t">>
BerryType == <<"b", "e", "r", "r", "y">>
Types == {CatType, BerryType}
EmptyType == <<>>                    \* the empty string ''
NullValue == <<"#null">>             \* the value null, passed where a string or a function is expected
TypeArgs == Types \cup {NullValue}
\* function() {}  and  class Cat { constructor(locator) { this.berry = locator.resolve('berry'); } }
\* and  class Wary { constructor(locator) {
\*        try { this.berry = locator.resolve('berry'); } catch (e) { this.berry = null; } } }
Functions == {"Plain", "Cat", "Wary"}
\* implementations whose constructors change the registrations of 'cat':
\* class Twin { constructor(locator) { locator.register('cat', function() {}); } }
\* and  class Giver { constructor(locator) { locator.registerInstance('cat', {}); } }
\* and  class Quitter { constructor(locator) { locator.unregister('cat'); } }
FunctionsRegistering == {"Twin", "Giver", "Quitter"}
ImplArgs == {"Plain", "Cat", "#null"}
SingletonArgs == {"true", "false", "undefined"}
NULL == 0                            \* null (or undefined) as an object reference

typeOf(v) == IF v = NullValue THEN "object" ELSE "string"
instanceofFunction(v) == v \in Functions \cup FunctionsRegistering
toBoolean(v) == v = "true"

State == [registrations |-> registrations, descriptors |-> descriptors, heap |-> heap]

Return(s, ids) == [s |-> s, ret |-> ids, err |-> "none"]
Throw(s, e) == [s |-> s, ret |-> <<>>, err |-> e]

----------------------------------------------------------------------------
(* src/lib/ServiceLocator.js.  A throwIf... operator is TRUE iff the call throws. *)

throwIfNotString(type) == typeOf(type) # "string"

throwIfNotFunction(type, Implementation) == ~instanceofFunction(Implementation)

\* mutant: only the key is tested, not the length of its list
throwIfNoType_hasOnly(s, l, type) == ~s.registrations[l][type].has

throwIfNoType(s, l, type) ==
    ~(s.registrations[l][type].has /\ Len(s.registrations[l][type].list) > 0)

initializeRegistration(s, l, type) ==
    IF s.registrations[l][type].has
    THEN s
    ELSE [s EXCEPT !.registrations[l][type] = [has |-> TRUE, list |-> <<>>]]

unshift(list, x) == <<x>> \o list

\* mutant: the new descriptor is put at the back of the list
register_push(s, l, type, implementation, isSingleton) ==
    IF throwIfNotFunction(type, implementation) THEN Throw(s, "notFunction")
    ELSE IF throwIfNotString(type) THEN Throw(s, "notString")
    ELSE LET s1 == initializeRegistration(s, l, type)
             d == Len(s1.descriptors) + 1
             s2 == [s1 EXCEPT !.descriptors = Append(@,
                        [Implementation |-> implementation,
                         isSingleton |-> toBoolean(isSingleton),
                         singleInstance |-> NULL])]
         IN Return([s2 EXCEPT !.registrations[l][type].list = Append(@, d)], <<>>)

\* mutant: the new descriptor takes the place of the ones registered before
register_replace(s, l, type, implementation, isSingleton) ==
    IF throwIfNotFunction(type, implementation) THEN Throw(s, "notFunction")
    ELSE IF throwIfNotString(type) THEN Throw(s, "notString")
    ELSE LET s1 == initializeRegistration(s, l, type)
             d == Len(s1.descriptors) + 1
             s2 == [s1 EXCEPT !.descriptors = Append(@,
                        [Implementation |-> implementation,
                         isSingleton |-> toBoolean(isSingleton),
                         singleInstance |-> NULL])]
         IN Return([s2 EXCEPT !.registrations[l][type].list = <<d>>], <<>>)

\* mutant: the implementation is checked after the list of the type is created
register_checkLate(s, l, type, implementation, isSingleton) ==
    IF throwIfNotString(type) THEN Throw(s, "notString")
    ELSE LET s1 == initializeRegistration(s, l, type)
             d == Len(s1.descriptors) + 1
             s2 == [s1 EXCEPT !.descriptors = Append(@,
                        [Implementation |-> implementation,
                         isSingleton |-> toBoolean(isSingleton),
                         singleInstance |-> NULL])]
         IN IF throwIfNotFunction(type, implementation) THEN Throw(s1, "notFunction")
            ELSE Return([s2 EXCEPT !.registrations[l][type].list = unshift(@, d)], <<>>)

\* mutant: one registry for all locators (a registry kept on the prototype)
register_shared(s, l, type, implementation, isSingleton) ==
    IF throwIfNotFunction(type, implementation) THEN Throw(s, "notFunction")
    ELSE IF throwIfNotString(type) THEN Throw(s, "notString")
    ELSE LET s1 == initializeRegistration(s, 1, type)
             d == Len(s1.descriptors) + 1
             s2 == [s1 EXCEPT !.descriptors = Append(@,
                        [Implementation |-> implementation,
                         isSingleton |-> toBoolean(isSingleton),
                         singleInstance |-> NULL])]
         IN Return([s2 EXCEPT !.registrations[1][type].list = unshift(@, d)], <<>>)

\* mutant: a singleton picks up the instance an earlier descriptor of the same
\* implementation holds
register_revive(s, l, type, implementation, isSingleton) ==
    IF throwIfNotFunction(type, implementation) THEN Throw(s, "notFunction")
    ELSE IF throwIfNotString(type) THEN Throw(s, "notString")
    ELSE LET s1 == initializeRegistration(s, l, type)
             d == Len(s1.descriptors) + 1
             earlier == {e \in 1..Len(s1.descriptors) :
                            /\ s1.descriptors[e].Implementation = implementation
                            /\ s1.descriptors[e].singleInstance # NULL}
             s2 == [s1 EXCEPT !.descriptors = Append(@,
                        [Implementation |-> implementation,
                         isSingleton |-> toBoolean(isSingleton),
                         singleInstance |-> IF toBoolean(isSingleton) /\ earlier # {}
                                            THEN s1.descriptors[CHOOSE e \in earlier : TRUE].singleInstance
                                            ELSE NULL])]
         IN Return([s2 EXCEPT !.registrations[l][type].list = unshift(@, d)], <<>>)

register(s, l, type, implementation, isSingleton) ==
    IF throwIfNotFunction(type, implementation) THEN Throw(s, "notFunction")
    ELSE IF throwIfNotString(type) THEN Throw(s, "notString")
    ELSE LET s1 == initializeRegistration(s, l, type)
             d == Len(s1.descriptors) + 1
             s2 == [s1 EXCEPT !.descriptors = Append(@,
                        [Implementation |-> implementation,
                         isSingleton |-> toBoolean(isSingleton),
                         singleInstance |-> NULL])]
         IN Return([s2 EXCEPT !.registrations[l][type].list = unshift(@, d)], <<>>)

\* mutant: the descriptor does not keep the instance
registerInstance_noInstance(s, l, type, instance) ==
    IF throwIfNotString(type) THEN Throw(s, "notString")
    ELSE LET s1 == initializeRegistration(s, l, type)
             d == Len(s1.descriptors) + 1
         IN IF instance = NULL THEN Throw(s1, "typeError")
            ELSE LET s2 == [s1 EXCEPT !.descriptors = Append(@,
                                [Implementation |-> s1.heap[instance].cls,
                                 isSingleton |-> TRUE,
                                 singleInstance |-> NULL])]
                 IN Return([s2 EXCEPT !.registrations[l][type].list = unshift(@, d)], <<>>)

\* instance.constructor throws a TypeError when instance is null
registerInstance(s, l, type, instance) ==
    IF throwIfNotString(type) THEN Throw(s, "notString")
    ELSE LET s1 == initializeRegistration(s, l, type)
             d == Len(s1.descriptors) + 1
         IN IF instance = NULL THEN Throw(s1, "typeError")
            ELSE LET s2 == [s1 EXCEPT !.descriptors = Append(@,
                                [Implementation |-> s1.heap[instance].cls,
                                 isSingleton |-> TRUE,
                                 singleInstance |-> instance])]
                 IN Return([s2 EXCEPT !.registrations[l][type].list = unshift(@, d)], <<>>)

RECURSIVE createInstance(_, _, _, _)
RECURSIVE resolve(_, _, _, _)
RECURSIVE unregister(_, _, _)

\* mutant: the constructor is called without the locator
construct_noArgument(s, l, d, depth) ==
    LET Implementation == s.descriptors[d].Implementation
    IN IF Implementation = "Cat"
       THEN LET r == resolve(s, l, BerryType, depth + 1)
            IN IF r.err # "none" THEN r
               ELSE Return([r.s EXCEPT !.heap = Append(@,
                        [cls |-> "Cat", args |-> <<>>, berry |-> r.ret[1], by |-> d])],
                        <<Len(r.s.heap) + 1>>)
       ELSE Return([s EXCEPT !.heap = Append(@,
                [cls |-> Implementation, args |-> <<>>, berry |-> NULL, by |-> d])],
                <<Len(s.heap) + 1>>)

\* new registration.Implementation(this): the implementation's constructor runs with
\* the locator as its only argument; Cat's constructor resolves 'berry' through it,
\* Wary's does too and goes on without a berry when that throws; the constructors of
\* Twin, Giver and Quitter call register, registerInstance and unregister for 'cat'
construct(s, l, d, depth) ==
    LET Implementation == s.descriptors[d].Implementation
    IN IF Implementation = "Cat"
       THEN LET r == resolve(s, l, BerryType, depth + 1)
            IN IF r.err # "none" THEN r
               ELSE Return([r.s EXCEPT !.heap = Append(@,
                        [cls |-> "Cat", args |-> <<l>>, berry |-> r.ret[1], by |-> d])],
                        <<Len(r.s.heap) + 1>>)
       ELSE IF Implementation = "Wary"
       THEN LET r == resolve(s, l, BerryType, depth + 1)
                berry == IF r.err = "none" THEN r.ret[1] ELSE NULL
            IN Return([r.s EXCEPT !.heap = Append(@,
                     [cls |-> "Wary", args |-> <<l>>, berry |-> berry, by |-> d])],
                     <<Len(r.s.heap) + 1>>)
       ELSE IF Implementation \in FunctionsRegistering
       THEN LET given == [s EXCEPT !.heap = Append(@,
                            [cls |-> "Object", args |-> <<>>, berry |-> NULL, by |-> 0])]
                r == IF Implementation = "Twin" THEN register(s, l, CatType, "Plain", "undefined")
                     ELSE IF Implementation = "Giver"
                     THEN registerInstance(given, l, CatType, Len(given.heap))
                     ELSE unregister(s, l, CatType)
            IN Return([r.s EXCEPT !.heap = Append(@,
                     [cls |-> Implementation, args |-> <<l>>, berry |-> NULL, by |-> d])],
                     <<Len(r.s.heap) + 1>>)
       ELSE Return([s EXCEPT !.heap = Append(@,
                [cls |-> Implementation, args |-> <<l>>, berry |-> NULL, by |-> d])],
                <<Len(s.heap) + 1>>)

\* mutant: a singleton's instance is never cached
createInstance_noCache(s, l, d, depth) ==
    IF d = 0 THEN Throw(s, "typeError")
    ELSE LET registration == s.descriptors[d]
         IN IF registration.isSingleton /\ registration.singleInstance # NULL
            THEN Return(s, <<registration.singleInstance>>)
            ELSE construct(s, l, d, depth)

\* mutant: the instance is cached whether or not the descriptor is a singleton
createInstance_alwaysCache(s, l, d, depth) ==
    IF d = 0 THEN Throw(s, "typeError")
    ELSE LET registration == s.descriptors[d]
         IN IF registration.singleInstance # NULL
            THEN Return(s, <<registration.singleInstance>>)
            ELSE LET c == construct(s, l, d, depth)
                 IN IF c.err # "none" THEN c
                    ELSE Return([c.s EXCEPT !.descriptors[d].singleInstance = c.ret[1]], c.ret)

\* d = 0: the registration is undefined, and reading its isSingleton is a TypeError
createInstance(s, l, d, depth) ==
    IF d = 0 THEN Throw(s, "typeError")
    ELSE LET registration == s.descriptors[d]
         IN IF registration.isSingleton /\ registration.singleInstance # NULL
            THEN Return(s, <<registration.singleInstance>>)
            ELSE LET c == construct(s, l, d, depth)
                 IN IF c.err # "none" THEN c
                    ELSE IF registration.isSingleton
                    THEN Return([c.s EXCEPT !.descriptors[d].singleInstance = c.ret[1]], c.ret)
                    ELSE c

\* list[0], undefined (0) when the list is empty
first(list) == IF Len(list) = 0 THEN 0 ELSE list[1]

\* mutant: the registration is not checked before it is read
resolve_noCheck(s, l, type, depth) ==
    IF depth > MaxDepth THEN Throw(s, "stackOverflow")
    ELSE IF throwIfNotString(type) THEN Throw(s, "notString")
    ELSE createInstance(s, l, first(s.registrations[l][type].list), depth)

\* depth > MaxDepth: the call stack is exhausted (a RangeError)
resolve(s, l, type, depth) ==
    IF depth > MaxDepth THEN Throw(s, "stackOverflow")
    ELSE IF throwIfNotString(type) THEN Throw(s, "notString")
    ELSE IF throwIfNoType(s, l, type) THEN Throw(s, "notRegistered")
    ELSE LET firstRegistration == first(s.registrations[l][type].list)
         IN createInstance(s, l, firstRegistration, depth)

\* Array.prototype.map over the array O of the registrations of type: the length is
\* read once, the element at each index when the index is reached.  register and
\* registerInstance unshift into the array the Map holds for the type, unregister puts
\* a new array in its place; O is that of the Map as long as the Map's ends in what O
\* held before (descriptors are never reused), and the array it was before otherwise
RECURSIVE mapCreateInstance(_, _, _, _, _, _, _, _)
mapCreateInstance(s, l, type, O, k, len, acc, depth) ==
    IF k > len THEN Return(s, acc)
    ELSE IF k > Len(O)
    THEN mapCreateInstance(s, l, type, O, k + 1, len, acc, depth)
    ELSE LET c == createInstance(s, l, O[k], depth)
             current == c.s.registrations[l][type].list
             O1 == IF /\ Len(current) >= Len(O)
                      /\ SubSeq(current, Len(current) - Len(O) + 1, Len(current)) = O
                   THEN current ELSE O
         IN IF c.err # "none" THEN c
            ELSE mapCreateInstance(c.s, l, type, O1, k + 1, len, acc \o c.ret, depth)

\* mutant: only the first registration is resolved
resolveAll_first(s, l, type, depth) ==
    IF throwIfNotString(type) THEN Throw(s, "notString")
    ELSE IF throwIfNoType(s, l, type) THEN Throw(s, "notRegistered")
    ELSE mapCreateInstance(s, l, type, s.registrations[l][type].list, 1, 1, <<>>, depth)

resolveAll(s, l, type, depth) ==
    IF throwIfNotString(type) THEN Throw(s, "notString")
    ELSE IF throwIfNoType(s, l, type) THEN Throw(s, "notRegistered")
    ELSE mapCreateInstance(s, l, type, s.registrations[l][type].list, 1,
                           Len(s.registrations[l][type].list), <<>>, depth)

\* mutant: the registrations are kept
unregister_keep(s, l, type) ==
    IF throwIfNotString(type) THEN Throw(s, "notString")
    ELSE Return(initializeRegistration(s, l, type), <<>>)

\* mutant: a type name that is no string is passed over in silence
unregister_silent(s, l, type) ==
    IF throwIfNotString(type) THEN Return(s, <<>>)
    ELSE Return([s EXCEPT !.registrations[l][type] = [has |-> TRUE, list |-> <<>>]], <<>>)

\* mutant: a type that has no registration is refused, as resolve refuses it
unregister_strict(s, l, type) ==
    IF throwIfNotString(type) THEN Throw(s, "notString")
    ELSE IF throwIfNoType(s, l, type) THEN Throw(s, "notRegistered")
    ELSE Return([s EXCEPT !.registrations[l][type] = [has |-> TRUE, list |-> <<>>]], <<>>)

unregister(s, l, type) ==
    IF throwIfNotString(type) THEN Throw(s, "notString")
    ELSE Return([s EXCEPT !.registrations[l][type] = [has |-> TRUE, list |-> <<>>]], <<>>)

----------------------------------------------------------------------------
(* src/lib/ConstructorTokenizer.js.  A tokenizer is the record of its fields       *)
(* [source, currentIndex, currentEnd, currentState]; indices count from 0.         *)

ILLEGAL == "ILLEGAL"
NO == "NO"
IDENTIFIER == "IDENTIFIER"
FUNCTION == "FUNCTION"
PARENTHESES_OPEN == "PARENTHESES_OPEN"
PARENTHESES_CLOSE == "PARENTHESES_CLOSE"
COMMA == "COMMA"
END == "END"

KEYWORDS_FUNCTION == <<"f", "u", "n", "c", "t", "i", "o", "n">>

\* \w
WordChars ==
    {"a", "b", "c", "d", "e", "f", "g", "h", "i", "j", "k", "l", "m", "n", "o", "p",
     "q", "r", "s", "t", "u", "v", "w", "x", "y", "z", "A", "B", "C", "D", "E", "F",
     "G", "H", "I", "J", "K", "L", "M", "N", "O", "P", "Q", "R", "S", "T", "U", "V",
     "W", "X", "Y", "Z", "0", "1", "2", "3", "4", "5", "6", "7", "8", "9", "_"}

\* source[i]; past the end it is undefined, which no test below matches
charAt(source, i) == IF i >= 0 /\ i < Len(source) THEN source[i + 1] ELSE "undefined"

WHITESPACE_TEST(c) == c \in {" ", "\t", "\n", "\r"}
\* mutant: /^\w$/, the sigil is no identifier character
IDENTIFIER_TEST_wordOnly(c) == c \in WordChars
IDENTIFIER_TEST(c) == c = "$" \/ c \in WordChars

\* source.substr(i, n)
substr(source, i, n) ==
    SubSeq(source, i + 1, IF i + n <= Len(source) THEN i + n ELSE Len(source))

\* String(constructorSource || ''): no source (null, undefined) reads as the empty text
ConstructorTokenizer(constructorSource) ==
    [source |-> IF constructorSource = NullValue THEN <<>> ELSE constructorSource,
     currentIndex |-> 0, currentEnd |-> 0, currentState |-> NO]

RECURSIVE skipWhitespaceFrom(_, _)
skipWhitespaceFrom(source, i) ==
    IF i < Len(source) /\ WHITESPACE_TEST(source[i + 1])
    THEN skipWhitespaceFrom(source, i + 1)
    ELSE i

skipWhitespace(tk) == [tk EXCEPT !.currentIndex = skipWhitespaceFrom(tk.source, tk.currentIndex)]

\* mutant: an opening parenthesis may follow an opening parenthesis
parenthesesOpenState_nested(tk) ==
    LET t1 == [tk EXCEPT !.currentIndex = @ + 1, !.currentEnd = tk.currentIndex + 1]
        t2 == skipWhitespace(t1)
        c == charAt(t2.source, t2.currentIndex)
    IN [t2 EXCEPT !.currentState =
            IF IDENTIFIER_TEST(c) THEN IDENTIFIER
            ELSE IF c = ")" THEN PARENTHESES_CLOSE
            ELSE IF c = "(" THEN PARENTHESES_OPEN
            ELSE ILLEGAL]

parenthesesOpenState(tk) ==
    LET t1 == [tk EXCEPT !.currentIndex = @ + 1, !.currentEnd = tk.currentIndex + 1]
        t2 == skipWhitespace(t1)
        c == charAt(t2.source, t2.currentIndex)
    IN [t2 EXCEPT !.currentState =
            IF IDENTIFIER_TEST(c) THEN IDENTIFIER
            ELSE IF c = ")" THEN PARENTHESES_CLOSE
            ELSE ILLEGAL]

\* mutant: the token of the closing parenthesis takes in the character after it
parenthesesCloseState_wide(tk) ==
    [tk EXCEPT !.currentIndex = @ + 1, !.currentEnd = tk.currentIndex + 2, !.currentState = END]

parenthesesCloseState(tk) ==
    [tk EXCEPT !.currentIndex = @ + 1, !.currentEnd = tk.currentIndex + 1, !.currentState = END]

functionState(tk) ==
    LET t1 == [tk EXCEPT !.currentIndex = @ + Len(KEYWORDS_FUNCTION),
                         !.currentEnd = tk.currentIndex + Len(KEYWORDS_FUNCTION)]
        t2 == skipWhitespace(t1)
        c == charAt(t2.source, t2.currentIndex)
    IN [t2 EXCEPT !.currentState =
            IF c = "(" THEN PARENTHESES_OPEN
            ELSE IF IDENTIFIER_TEST(c) THEN IDENTIFIER
            ELSE ILLEGAL]

RECURSIVE skipIdentifierFrom(_, _)
skipIdentifierFrom(source, i) ==
    IF i < Len(source) /\ IDENTIFIER_TEST(source[i + 1])
    THEN skipIdentifierFrom(source, i + 1)
    ELSE i

\* mutant: the end of the token is taken after the white space is skipped
identifierState_lateEnd(tk) ==
    LET i == skipIdentifierFrom(tk.source, tk.currentIndex)
        t1 == [tk EXCEPT !.currentIndex = i]
        t2 == skipWhitespace(t1)
        t3 == [t2 EXCEPT !.currentEnd = t2.currentIndex]
        c == charAt(t3.source, t3.currentIndex)
    IN [t3 EXCEPT !.currentState =
            IF c = "(" THEN PARENTHESES_OPEN
            ELSE IF c = ")" THEN PARENTHESES_CLOSE
            ELSE IF c = "," THEN COMMA
            ELSE ILLEGAL]

identifierState(tk) ==
    LET i == skipIdentifierFrom(tk.source, tk.currentIndex)
        t1 == [tk EXCEPT !.currentIndex = i, !.currentEnd = i]
        t2 == skipWhitespace(t1)
        c == charAt(t2.source, t2.currentIndex)
    IN [t2 EXCEPT !.currentState =
            IF c = "(" THEN PARENTHESES_OPEN
            ELSE IF c = ")" THEN PARENTHESES_CLOSE
            ELSE IF c = "," THEN COMMA
            ELSE ILLEGAL]

\* mutant: the comma is not stepped over
commaState_stay(tk) ==
    LET t1 == [tk EXCEPT !.currentEnd = tk.currentIndex + 1]
        t2 == skipWhitespace(t1)
        c == charAt(t2.source, t2.currentIndex)
    IN [t2 EXCEPT !.currentState = IF IDENTIFIER_TEST(c) THEN IDENTIFIER ELSE ILLEGAL]

\* mutant: a comma may be the last thing in the parentheses
commaState_trailing(tk) ==
    LET t1 == [tk EXCEPT !.currentIndex = @ + 1, !.currentEnd = tk.currentIndex + 1]
        t2 == skipWhitespace(t1)
        c == charAt(t2.source, t2.currentIndex)
    IN [t2 EXCEPT !.currentState =
            IF IDENTIFIER_TEST(c) THEN IDENTIFIER
            ELSE IF c = ")" THEN PARENTHESES_CLOSE
            ELSE ILLEGAL]

commaState(tk) ==
    LET t1 == [tk EXCEPT !.currentIndex = @ + 1, !.currentEnd = tk.currentIndex + 1]
        t2 == skipWhitespace(t1)
        c == charAt(t2.source, t2.currentIndex)
    IN [t2 EXCEPT !.currentState = IF IDENTIFIER_TEST(c) THEN IDENTIFIER ELSE ILLEGAL]

Token(state, start, end) == [state |-> state, start |-> start, end |-> end]

\* returns the tokenizer after the call and the token the call returns
RECURSIVE next(_)
\* mutant: a call in a terminal state starts the scan over
next_rewind(tk) ==
    IF tk.currentState = ILLEGAL \/ tk.currentState = END
    THEN [tk |-> [tk EXCEPT !.currentState = NO, !.currentIndex = 0],
          token |-> Token(tk.currentState, tk.currentIndex, tk.currentIndex + 1)]
    ELSE LET start == tk.currentIndex
             state == tk.currentState
             Stepped(t2) == [tk |-> t2, token |-> Token(state, start, t2.currentEnd)]
         IN CASE state = PARENTHESES_OPEN -> Stepped(parenthesesOpenState(tk))
              [] state = PARENTHESES_CLOSE -> Stepped(parenthesesCloseState(tk))
              [] state = IDENTIFIER -> Stepped(identifierState(tk))
              [] state = COMMA -> Stepped(commaState(tk))
              [] state = FUNCTION -> Stepped(functionState(tk))
              [] OTHER ->
                    LET t1 == skipWhitespace(tk)
                        expected == substr(t1.source, t1.currentIndex, Len(KEYWORDS_FUNCTION))
                    IN IF expected = KEYWORDS_FUNCTION
                       THEN next([t1 EXCEPT !.currentState = FUNCTION])
                       ELSE [tk |-> t1, token |-> Token(ILLEGAL, start, t1.currentEnd)]

next(tk) ==
    IF tk.currentState = ILLEGAL \/ tk.currentState = END
    THEN [tk |-> tk, token |-> Token(tk.currentState, tk.currentIndex, tk.currentIndex + 1)]
    ELSE LET start == tk.currentIndex
             state == tk.currentState
             Stepped(t2) == [tk |-> t2, token |-> Token(state, start, t2.currentEnd)]
         IN CASE state = PARENTHESES_OPEN -> Stepped(parenthesesOpenState(tk))
              [] state = PARENTHESES_CLOSE -> Stepped(parenthesesCloseState(tk))
              [] state = IDENTIFIER -> Stepped(identifierState(tk))
              [] state = COMMA -> Stepped(commaState(tk))
              [] state = FUNCTION -> Stepped(functionState(tk))
              [] OTHER ->
                    LET t1 == skipWhitespace(tk)
                        expected == substr(t1.source, t1.currentIndex, Len(KEYWORDS_FUNCTION))
                    IN IF expected = KEYWORDS_FUNCTION
                       THEN next([t1 EXCEPT !.currentState = FUNCTION])
                       ELSE [tk |-> t1, token |-> Token(ILLEGAL, start, t1.currentEnd)]

----------------------------------------------------------------------------
(* src/unnamed/part_000: the Service Locator that injects constructor parameters.  *)
(* _throwIfNotString and _initializeRegistration read as in the Service Locator    *)
(* above and are shared with it.                                                   *)

\* function Berry(berryType) {}  and  function Pet($berry, name) {}
\* and  function Home($berry, $dog) {}, which no program but that of SpecDependencies registers
\* and  function named($dep, literal) {}, which no program but that of SpecNamed registers
FunctionsDI == {"Berry", "Pet", "Home", "Named"}
ImplArgsDI == {"Berry", "Pet", "#null"}

\* 'function named($dep, literal) {}'
SourceNamed ==
    <<"f", "u", "n", "c", "t", "i", "o", "n", " ", "n", "a", "m", "e", "d", "(", "$",
      "d", "e", "p", ",", " ", "l", "i", "t", "e", "r", "a", "l", ")", " ", "{", "}">>

\* constructor.toString()
toString(constructor) ==
    IF constructor = "Berry"
    THEN <<"f", "u", "n", "c", "t", "i", "o", "n", " ", "B", "e", "r", "r", "y", "(",
           "b", "e", "r", "r", "y", "T", "y", "p", "e", ")", " ", "{", "}">>
    ELSE IF constructor = "Pet"
    THEN <<"f", "u", "n", "c", "t", "i", "o", "n", " ", "P", "e", "t", "(", "$", "b",
           "e", "r", "r", "y", ",", " ", "n", "a", "m", "e", ")", " ", "{", "}">>
    ELSE IF constructor = "Home"
    THEN <<"f", "u", "n", "c", "t", "i", "o", "n", " ", "H", "o", "m", "e", "(", "$", "b",
           "e", "r", "r", "y", ",", " ", "$", "d", "o", "g", ")", " ", "{", "}">>
    ELSE SourceNamed

\* the parameters objects a program passes: name -> value
NameParam == <<"n", "a", "m", "e">>
BerryTypeParam == <<"b", "e", "r", "r", "y", "T", "y", "p", "e">>
NoParameters == <<>>
ParameterArgs == {NoParameters, (NameParam :> "Tom") @@ (BerryTypeParam :> "black")}

\* a constructor argument: an instance, a value of the parameters object, or undefined
InstanceArg(id) == [kind |-> "instance", id |-> id, value |-> ""]
ValueArg(v) == [kind |-> "value", id |-> 0, value |-> v]
UndefinedArg == [kind |-> "undefined", id |-> 0, value |-> ""]

\* registration.parameters[parameterName]
lookup(parameters, parameterName) ==
    IF parameterName \in DOMAIN parameters THEN ValueArg(parameters[parameterName]) ELSE UndefinedArg

\* /^\$\w+/
DEPENDENCY_REGEXP(parameterName) ==
    Len(parameterName) >= 2 /\ parameterName[1] = "$" /\ parameterName[2] \in WordChars

\* a variant that keeps the sigil
getDependencyName_keepSigil(parameterName) ==
    IF ~DEPENDENCY_REGEXP(parameterName) THEN <<>> ELSE parameterName

\* null is modelled by the empty name, which is no type name here
getDependencyName(parameterName) ==
    IF ~DEPENDENCY_REGEXP(parameterName) THEN <<>> ELSE Tail(parameterName)

RECURSIVE getParameterNamesLoop(_, _, _)
\* mutant: a scan that ends in ILLEGAL yields no names
getParameterNamesLoop_strict(tk, areParametersStarted, result) ==
    LET n == next(tk)
        started == areParametersStarted \/ n.token.state = PARENTHESES_OPEN
        result1 == IF started /\ n.token.state = IDENTIFIER
                   THEN Append(result, SubSeq(tk.source, n.token.start + 1, n.token.end))
                   ELSE result
    IN IF n.token.state = ILLEGAL THEN <<>>
       ELSE IF n.token.state = END THEN result1
       ELSE getParameterNamesLoop(n.tk, started, result1)

\* mutant: every identifier is a parameter name, the declaration's name too
getParameterNamesLoop_all(tk, areParametersStarted, result) ==
    LET n == next(tk)
        result1 == IF n.token.state = IDENTIFIER
                   THEN Append(result, SubSeq(tk.source, n.token.start + 1, n.token.end))
                   ELSE result
    IN IF n.token.state = END \/ n.token.state = ILLEGAL
       THEN result1
       ELSE getParameterNamesLoop(n.tk, areParametersStarted, result1)

getParameterNamesLoop(tk, areParametersStarted, result) ==
    LET n == next(tk)
        started == areParametersStarted \/ n.token.state = PARENTHESES_OPEN
        result1 == IF started /\ n.token.state = IDENTIFIER
                   THEN Append(result, SubSeq(tk.source, n.token.start + 1, n.token.end))
                   ELSE result
    IN IF n.token.state = END \/ n.token.state = ILLEGAL
       THEN result1
       ELSE getParameterNamesLoop(n.tk, started, result1)

getParameterNames(constructor) ==
    getParameterNamesLoop(ConstructorTokenizer(toString(constructor)), FALSE, <<>>)

throwIfNotFunctionDI(constructor) == constructor \notin FunctionsDI

\* (type in this._registrations) is false for every name that was never a key
throwIfNoTypeDI(s, l, type) ==
    \/ type \notin DOMAIN s.registrations[l]
    \/ ~s.registrations[l][type].has
    \/ Len(s.registrations[l][type].list) = 0

registerDI(s, l, type, constructor, parameters, isSingleton) ==
    IF throwIfNotFunctionDI(constructor) THEN Throw(s, "notFunction")
    ELSE IF throwIfNotString(type) THEN Throw(s, "notString")
    ELSE LET s1 == initializeRegistration(s, l, type)
             parameterNames == getParameterNames(constructor)
             d == Len(s1.descriptors) + 1
             s2 == [s1 EXCEPT !.descriptors = Append(@,
                        [constructor |-> constructor,
                         parameterNames |-> parameterNames,
                         parameters |-> parameters,
                         isSingleton |-> toBoolean(isSingleton),
                         singleInstance |-> NULL])]
         IN Return([s2 EXCEPT !.registrations[l][type].list = unshift(@, d)], <<>>)

registerInstanceDI(s, l, type, instance) ==
    IF throwIfNotString(type) THEN Throw(s, "notString")
    ELSE LET s1 == initializeRegistration(s, l, type)
             d == Len(s1.descriptors) + 1
         IN IF instance = NULL THEN Throw(s1, "typeError")
            ELSE LET s2 == [s1 EXCEPT !.descriptors = Append(@,
                                [constructor |-> s1.heap[instance].cls,
                                 parameters |-> NoParameters,
                                 parameterNames |-> <<>>,
                                 isSingleton |-> TRUE,
                                 singleInstance |-> instance])]
                 IN Return([s2 EXCEPT !.registrations[l][type].list = unshift(@, d)], <<>>)

RECURSIVE createInstanceDI(_, _, _, _, _)
RECURSIVE resolveDI(_, _, _, _)

\* parameterNames.map(...): returns in ret the constructor's arguments
RECURSIVE getParameters(_, _, _, _, _, _)
\* mutant: a dependency whose front registration is the one under construction is
\* passed as undefined
getParameters_guard(s, l, registration, k, acc, depth) ==
    IF k > Len(registration.parameterNames) THEN Return(s, acc)
    ELSE LET parameterName == registration.parameterNames[k]
             dependencyName == getDependencyName(parameterName)
         IN IF dependencyName = <<>>
            THEN getParameters(s, l, registration, k + 1,
                               Append(acc, lookup(registration.parameters, parameterName)), depth)
            ELSE IF /\ ~throwIfNoTypeDI(s, l, dependencyName)
                    /\ s.descriptors[s.registrations[l][dependencyName].list[1]] = registration
            THEN getParameters(s, l, registration, k + 1, Append(acc, UndefinedArg), depth)
            ELSE LET r == resolveDI(s, l, dependencyName, depth + 1)
                 IN IF r.err # "none" THEN r
                    ELSE getParameters(r.s, l, registration, k + 1,
                                       Append(acc, InstanceArg(r.ret[1])), depth)

\* mutant: a dependency that cannot be resolved is passed as undefined
getParameters_swallow(s, l, registration, k, acc, depth) ==
    IF k > Len(registration.parameterNames) THEN Return(s, acc)
    ELSE LET parameterName == registration.parameterNames[k]
             dependencyName == getDependencyName(parameterName)
         IN IF dependencyName = <<>>
            THEN getParameters(s, l, registration, k + 1,
                               Append(acc, lookup(registration.parameters, parameterName)), depth)
            ELSE LET r == resolveDI(s, l, dependencyName, depth + 1)
                 IN IF r.err # "none"
                    THEN getParameters(r.s, l, registration, k + 1, Append(acc, UndefinedArg), depth)
                    ELSE getParameters(r.s, l, registration, k + 1,
                                       Append(acc, InstanceArg(r.ret[1])), depth)

getParameters(s, l, registration, k, acc, depth) ==
    IF k > Len(registration.parameterNames) THEN Return(s, acc)
    ELSE LET parameterName == registration.parameterNames[k]
             dependencyName == getDependencyName(parameterName)
         IN IF dependencyName = <<>>
            THEN getParameters(s, l, registration, k + 1,
                               Append(acc, lookup(registration.parameters, parameterName)), depth)
            ELSE LET r == resolveDI(s, l, dependencyName, depth + 1)
                 IN IF r.err # "none" THEN r
                    ELSE getParameters(r.s, l, registration, k + 1,
                                       Append(acc, InstanceArg(r.ret[1])), depth)

\* mutant: the parameters are resolved before the cached instance is looked at
createInstanceDI_eager(s, l, d, registration, depth) ==
    LET p == getParameters(s, l, registration, 1, <<>>, depth)
    IN IF p.err # "none" THEN p
       ELSE IF registration.isSingleton /\ registration.singleInstance # NULL
       THEN Return(p.s, <<registration.singleInstance>>)
       ELSE LET instance == Len(p.s.heap) + 1
                s1 == [p.s EXCEPT !.heap = Append(@,
                          [cls |-> registration.constructor, args |-> p.ret,
                           berry |-> NULL, by |-> d])]
            IN IF registration.isSingleton /\ d # 0
               THEN Return([s1 EXCEPT !.descriptors[d].singleInstance = instance], <<instance>>)
               ELSE Return(s1, <<instance>>)

\* d names the registration among the descriptors; d = 0: it is the object that
\* resolveInstance builds, which no list holds
createInstanceDI(s, l, d, registration, depth) ==
    IF registration.isSingleton /\ registration.singleInstance # NULL
    THEN Return(s, <<registration.singleInstance>>)
    ELSE LET p == getParameters(s, l, registration, 1, <<>>, depth)
         IN IF p.err # "none" THEN p
            ELSE LET instance == Len(p.s.heap) + 1
                     s1 == [p.s EXCEPT !.heap = Append(@,
                               [cls |-> registration.constructor, args |-> p.ret,
                                berry |-> NULL, by |-> d])]
                 IN IF registration.isSingleton /\ d # 0
                    THEN Return([s1 EXCEPT !.descriptors[d].singleInstance = instance], <<instance>>)
                    ELSE Return(s1, <<instance>>)

\* mutant: the list of the type is created before it is looked up
resolveDI_initialize(s, l, type, depth) ==
    IF depth > MaxDepth THEN Throw(s, "stackOverflow")
    ELSE IF throwIfNotString(type) THEN Throw(s, "notString")
    ELSE IF type \notin Types THEN Throw(s, "notRegistered")
    ELSE IF throwIfNoTypeDI(initializeRegistration(s, l, type), l, type)
    THEN Throw(initializeRegistration(s, l, type), "notRegistered")
    ELSE LET firstRegistration == s.registrations[l][type].list[1]
         IN createInstanceDI(s, l, firstRegistration, s.descriptors[firstRegistration], depth)

resolveDI(s, l, type, depth) ==
    IF depth > MaxDepth THEN Throw(s, "stackOverflow")
    ELSE IF throwIfNotString(type) THEN Throw(s, "notString")
    ELSE IF throwIfNoTypeDI(s, l, type) THEN Throw(s, "notRegistered")
    ELSE LET firstRegistration == s.registrations[l][type].list[1]
         IN createInstanceDI(s, l, firstRegistration, s.descriptors[firstRegistration], depth)

RECURSIVE mapCreateInstanceDI(_, _, _, _, _, _, _)
mapCreateInstanceDI(s, l, type, k, len, acc, depth) ==
    IF k > len THEN Return(s, acc)
    ELSE IF k > Len(s.registrations[l][type].list)
    THEN mapCreateInstanceDI(s, l, type, k + 1, len, acc, depth)
    ELSE LET d == s.registrations[l][type].list[k]
             c == createInstanceDI(s, l, d, s.descriptors[d], depth)
         IN IF c.err # "none" THEN c
            ELSE mapCreateInstanceDI(c.s, l, type, k + 1, len, acc \o c.ret, depth)

\* mutant: the error of _throwIfNoType is not caught
resolveAllDI_strict(s, l, type, depth) ==
    IF throwIfNotString(type) THEN Throw(s, "notString")
    ELSE IF throwIfNoTypeDI(s, l, type) THEN Throw(s, "notRegistered")
    ELSE mapCreateInstanceDI(s, l, type, 1, Len(s.registrations[l][type].list), <<>>, depth)

\* the error of _throwIfNoType is caught and an empty list returned
resolveAllDI(s, l, type, depth) ==
    IF throwIfNotString(type) THEN Throw(s, "notString")
    ELSE IF throwIfNoTypeDI(s, l, type) THEN Return(s, <<>>)
    ELSE mapCreateInstanceDI(s, l, type, 1, Len(s.registrations[l][type].list), <<>>, depth)

\* mutant: the constructor is registered under a type name and resolved from there
resolveInstanceDI_register(s, l, constructor, parameters, depth) ==
    IF constructor \notin FunctionsDI THEN Throw(s, "typeError")
    ELSE resolveDI(registerDI(s, l, CatType, constructor, parameters, "false").s, l, CatType, depth)

\* constructor.toString() throws a TypeError when constructor is null
resolveInstanceDI(s, l, constructor, parameters, depth) ==
    IF constructor \notin FunctionsDI THEN Throw(s, "typeError")
    ELSE createInstanceDI(s, l, 0,
            [constructor |-> constructor,
             parameters |-> parameters,
             parameterNames |-> getParameterNames(constructor),
             isSingleton |-> FALSE,
             singleInstance |-> NULL], depth)

\* delete this._registrations[type]
unregisterDI(s, l, type) ==
    IF throwIfNotString(type) THEN Throw(s, "notString")
    ELSE Return([s EXCEPT !.registrations[l][type] = [has |-> FALSE, list |-> <<>>]], <<>>)

----------------------------------------------------------------------------
(* The calls a program makes on the locators of the set L *)

Commit(o) ==
    /\ registrations' = o.s.registrations
    /\ descriptors' = o.s.descriptors
    /\ heap' = o.s.heap
    /\ UNCHANGED <<tokenizer, tokens>>

NoHistory == [live |-> <<>>, unregistered |-> FALSE, removed |-> 0]

\* history of a registration: the descriptor created, by which call, with which arguments
Registered(d, op, implementation, isSingleton, instance) ==
    [d |-> d, op |-> op, impl |-> implementation, single |-> isSingleton, instance |-> instance]

Init ==
    /\ registrations = [l \in Locators |-> [t \in Types |-> [has |-> FALSE, list |-> <<>>]]]
    /\ descriptors = <<>>
    /\ heap = <<>>
    /\ hist = [l \in Locators |-> [t \in Types |-> NoHistory]]
    /\ tokenizer = NULL
    /\ tokens = <<>>

Register(l, type, implementation, isSingleton) ==
    /\ Len(descriptors) < MaxDesc
    /\ LET o == register(State, l, type, implementation, isSingleton)
       IN /\ Commit(o)
          /\ hist' = IF o.err = "none"
                     THEN [hist EXCEPT ![l][type].live = Append(@,
                              Registered(Len(descriptors) + 1, "register", implementation,
                                         toBoolean(isSingleton), NULL))]
                     ELSE hist

\* instance: null, an object the program holds, or a new one (const instance = {};)
RegisterInstance(l, type, instance) ==
    /\ Len(descriptors) < MaxDesc
    /\ instance <= MaxHeap
    /\ LET s0 == IF instance = Len(heap) + 1
                 THEN [State EXCEPT !.heap = Append(@,
                          [cls |-> "Object", args |-> <<>>, berry |-> NULL, by |-> 0])]
                 ELSE State
           o == registerInstance(s0, l, type, instance)
       IN /\ Commit(o)
          /\ hist' = IF o.err = "none"
                     THEN [hist EXCEPT ![l][type].live = Append(@,
                              Registered(Len(descriptors) + 1, "registerInstance", "", TRUE, instance))]
                     ELSE hist

Resolve(l, type) ==
    LET o == resolve(State, l, type, 1)
    IN /\ Len(o.s.heap) <= MaxHeap
       /\ Len(o.s.descriptors) <= MaxDescReentrant
       /\ Commit(o)
       /\ UNCHANGED hist

ResolveAll(l, type) ==
    LET o == resolveAll(State, l, type, 1)
    IN /\ Len(o.s.heap) <= MaxHeap
       /\ Len(o.s.descriptors) <= MaxDescReentrant
       /\ Commit(o)
       /\ UNCHANGED hist

Unregister(l, type) ==
    LET o == unregister(State, l, type)
    IN /\ Commit(o)
       /\ hist' = IF o.err = "none"
                  THEN [hist EXCEPT ![l][type] =
                           [live |-> <<>>, unregistered |-> TRUE, removed |-> @.removed + Len(@.live)]]
                  ELSE hist

Calls(L) ==
    \/ \E l \in L, type \in TypeArgs, implementation \in ImplArgs, isSingleton \in SingletonArgs :
          Register(l, type, implementation, isSingleton)
    \/ \E l \in L, type \in TypeArgs, instance \in 0..(Len(heap) + 1) :
          RegisterInstance(l, type, instance)
    \/ \E l \in L, type \in TypeArgs : Resolve(l, type)
    \/ \E l \in L, type \in TypeArgs : ResolveAll(l, type)
    \/ \E l \in L, type \in TypeArgs : Unregister(l, type)

\* a program with one locator
Next == Calls({1})

Spec == Init /\ [][Next]_vars

\* a program with two locators
NextTwo == Calls(Locators)

SpecTwo == Init /\ [][NextTwo]_vars

\* a program that also registers an implementation whose constructor catches what
\* its own resolve call throws
NextReentrant ==
    \/ Calls({1})
    \/ \E type \in Types, isSingleton \in SingletonArgs : Register(1, type, "Wary", isSingleton)

SpecReentrant == Init /\ [][NextReentrant]_vars

\* a program whose implementations register and unregister 'cat' in their constructors
NextRegistering ==
    \/ \E implementation \in {"Plain"} \cup FunctionsRegistering,
          isSingleton \in {"true", "false"} : Register(1, CatType, implementation, isSingleton)
    \/ Resolve(1, CatType)
    \/ ResolveAll(1, CatType)
    \/ Unregister(1, CatType)

SpecRegistering == Init /\ [][NextRegistering]_vars

\* a program that uses the empty string as a type name
TypesWithEmpty == Types \cup {EmptyType}
TypeArgsWithEmpty == {EmptyType, CatType, NullValue}

InitEmptyName ==
    /\ registrations = [l \in Locators |-> [t \in TypesWithEmpty |-> [has |-> FALSE, list |-> <<>>]]]
    /\ descriptors = <<>>
    /\ heap = <<>>
    /\ hist = [l \in Locators |-> [t \in TypesWithEmpty |-> NoHistory]]
    /\ tokenizer = NULL
    /\ tokens = <<>>

NextEmptyName ==
    \/ \E type \in TypeArgsWithEmpty, implementation \in {"Plain", "#null"},
          isSingleton \in SingletonArgs : Register(1, type, implementation, isSingleton)
    \/ \E type \in TypeArgsWithEmpty, instance \in 0..(Len(heap) + 1) :
          RegisterInstance(1, type, instance)
    \/ \E type \in TypeArgsWithEmpty : Resolve(1, type)
    \/ \E type \in TypeArgsWithEmpty : ResolveAll(1, type)
    \/ \E type \in TypeArgsWithEmpty : Unregister(1, type)

SpecEmptyName == InitEmptyName /\ [][NextEmptyName]_vars

----------------------------------------------------------------------------
(* The calls a program makes on a parameter-injecting locator *)

RegisteredDI(d, op, constructor, parameters, isSingleton, instance) ==
    [d |-> d, op |-> op, impl |-> constructor, parameters |-> parameters,
     single |-> isSingleton, instance |-> instance]

RegisterDI(l, type, constructor, parameters, isSingleton) ==
    /\ Len(descriptors) < MaxDesc
    /\ LET o == registerDI(State, l, type, constructor, parameters, isSingleton)
       IN /\ Commit(o)
          /\ hist' = IF o.err = "none"
                     THEN [hist EXCEPT ![l][type].live = Append(@,
                              RegisteredDI(Len(descriptors) + 1, "register", constructor,
                                           parameters, toBoolean(isSingleton), NULL))]
                     ELSE hist

RegisterInstanceDI(l, type, instance) ==
    /\ Len(descriptors) < MaxDesc
    /\ instance <= MaxHeapDI
    /\ LET s0 == IF instance = Len(heap) + 1
                 THEN [State EXCEPT !.heap = Append(@,
                          [cls |-> "Object", args |-> <<>>, berry |-> NULL, by |-> 0])]
                 ELSE State
           o == registerInstanceDI(s0, l, type, instance)
       IN /\ Commit(o)
          /\ hist' = IF o.err = "none"
                     THEN [hist EXCEPT ![l][type].live = Append(@,
                              RegisteredDI(Len(descriptors) + 1, "registerInstance", "",
                                           NoParameters, TRUE, instance))]
                     ELSE hist

ResolveDI(l, type) ==
    LET o == resolveDI(State, l, type, 1)
    IN /\ Len(o.s.heap) <= MaxHeapDI
       /\ Commit(o)
       /\ UNCHANGED hist

ResolveAllDI(l, type) ==
    LET o == resolveAllDI(State, l, type, 1)
    IN /\ Len(o.s.heap) <= MaxHeapDI
       /\ Commit(o)
       /\ UNCHANGED hist

ResolveInstanceDI(l, constructor, parameters) ==
    LET o == resolveInstanceDI(State, l, constructor, parameters, 1)
    IN /\ Len(o.s.heap) <= MaxHeapDI
       /\ Commit(o)
       /\ UNCHANGED hist

UnregisterDI(l, type) ==
    LET o == unregisterDI(State, l, type)
    IN /\ Commit(o)
       /\ hist' = IF o.err = "none"
                  THEN [hist EXCEPT ![l][type] =
                           [live |-> <<>>, unregistered |-> TRUE, removed |-> @.removed + Len(@.live)]]
                  ELSE hist

NextDI ==
    \/ \E type \in TypeArgs, constructor \in ImplArgsDI, parameters \in ParameterArgs,
          isSingleton \in SingletonArgs :
          RegisterDI(1, type, constructor, parameters, isSingleton)
    \/ \E type \in TypeArgs, instance \in 0..(Len(heap) + 1) : RegisterInstanceDI(1, type, instance)
    \/ \E type \in TypeArgs : ResolveDI(1, type)
    \/ \E type \in TypeArgs : ResolveAllDI(1, type)
    \/ \E constructor \in ImplArgsDI, parameters \in ParameterArgs :
          ResolveInstanceDI(1, constructor, parameters)
    \/ \E type \in TypeArgs : UnregisterDI(1, type)

SpecDI == Init /\ [][NextDI]_vars

\* a program that also registers a constructor with two dependencies
NextDependencies ==
    \/ NextDI
    \/ \E type \in Types, isSingleton \in SingletonArgs :
          RegisterDI(1, type, "Home", NoParameters, isSingleton)

SpecDependencies == Init /\ [][NextDependencies]_vars

\* a program whose constructors depend on each other and on types it never registers:
\* Home needs berry and dog, Named needs dep, Pet needs berry
NextTransitive ==
    \/ \E type \in Types, constructor \in FunctionsDI, isSingleton \in {"true", "false"} :
          RegisterDI(1, type, constructor, NoParameters, isSingleton)
    \/ \E type \in Types, instance \in 0..(Len(heap) + 1) : RegisterInstanceDI(1, type, instance)
    \/ \E type \in Types : ResolveDI(1, type)
    \/ \E type \in Types : ResolveAllDI(1, type)
    \/ \E constructor \in FunctionsDI : ResolveInstanceDI(1, constructor, NoParameters)
    \/ \E type \in Types : UnregisterDI(1, type)

SpecTransitive == Init /\ [][NextTransitive]_vars

\* a program that registers the constructor  function named($dep, literal) {}  and
\* passes parameters that hold a value under literal and one under $dep
DepType == <<"d", "e", "p">>
TypesNamed == {DepType, CatType}
DepParam == <<"$", "d", "e", "p">>
LiteralParam == <<"l", "i", "t", "e", "r", "a", "l">>
ParameterArgsNamed == {NoParameters, (LiteralParam :> "value") @@ (DepParam :> "unused")}

InitNamed ==
    /\ registrations = [l \in Locators |-> [t \in TypesNamed |-> [has |-> FALSE, list |-> <<>>]]]
    /\ descriptors = <<>>
    /\ heap = <<>>
    /\ hist = [l \in Locators |-> [t \in TypesNamed |-> NoHistory]]
    /\ tokenizer = NULL
    /\ tokens = <<>>

NextNamed ==
    \/ \E type \in TypesNamed, constructor \in {"Berry", "Named"},
          parameters \in ParameterArgsNamed, isSingleton \in SingletonArgs :
          RegisterDI(1, type, constructor, parameters, isSingleton)
    \/ \E type \in TypesNamed, instance \in 0..(Len(heap) + 1) : RegisterInstanceDI(1, type, instance)
    \/ \E type \in TypesNamed : ResolveDI(1, type)
    \/ \E type \in TypesNamed : ResolveAllDI(1, type)
    \/ \E constructor \in {"Berry", "Named"}, parameters \in ParameterArgsNamed :
          ResolveInstanceDI(1, constructor, parameters)
    \/ \E type \in TypesNamed : UnregisterDI(1, type)

SpecNamed == InitNamed /\ [][NextNamed]_vars

----------------------------------------------------------------------------
(* A program that scans one source text: it constructs a tokenizer and calls next() *)

\* the sources of src/test/lib/ConstructorTokenizer.js, of the specification and of the README
\* '   function   ( param, {'
SourceAfterComma ==
    <<" ", " ", " ", "f", "u", "n", "c", "t", "i", "o", "n", " ", " ", " ", "(", " ",
      "p", "a", "r", "a", "m", ",", " ", "{">>

\* '   function       \n    (     \n){   }'
SourceWithoutArguments ==
    <<" ", " ", " ", "f", "u", "n", "c", "t", "i", "o", "n", " ", " ", " ", " ", " ",
      " ", " ", "\n", " ", " ", " ", " ", "(", " ", " ", " ", " ", " ", "\n", ")", "{",
      " ", " ", " ", "}">>

\* 'function (a, b) {}'
SourceTwoParameters ==
    <<"f", "u", "n", "c", "t", "i", "o", "n", " ", "(", "a", ",", " ", "b", ")", " ",
      "{", "}">>

\* 'function {'
SourceMalformed ==
    <<"f", "u", "n", "c", "t", "i", "o", "n", " ", "{">>

SampleSources ==
    {SourceAfterComma, SourceWithoutArguments, SourceTwoParameters, SourceNamed, SourceMalformed,
     toString("Berry"), toString("Pet"), toString("Home"),
     \* '   function   {'
     <<" ", " ", " ", "f", "u", "n", "c", "t", "i", "o", "n", " ", " ", " ", "{">>,
     \* '   function   ( {'
     <<" ", " ", " ", "f", "u", "n", "c", "t", "i", "o", "n", " ", " ", " ", "(", " ",
       "{">>,
     \* '   function   Some {'
     <<" ", " ", " ", "f", "u", "n", "c", "t", "i", "o", "n", " ", " ", " ", "S", "o",
       "m", "e", " ", "{">>,
     \* '   function   SomeModuleName    \n    (     $first   ,  \n   second,third \n, $fourth \n){   }'
     <<" ", " ", " ", "f", "u", "n", "c", "t", "i", "o", "n", " ", " ", " ", "S", "o",
       "m", "e", "M", "o", "d", "u", "l", "e", "N", "a", "m", "e", " ", " ", " ", " ",
       "\n", " ", " ", " ", " ", "(", " ", " ", " ", " ", " ", "$", "f", "i", "r", "s",
       "t", " ", " ", " ", ",", " ", " ", "\n", " ", " ", " ", "s", "e", "c", "o", "n",
       "d", ",", "t", "h", "i", "r", "d", " ", "\n", ",", " ", "$", "f", "o", "u", "r",
       "t", "h", " ", "\n", ")", "{", " ", " ", " ", "}">>,
     \* '   function       \n    (     $first   ,  \n   second\n){   }'
     <<" ", " ", " ", "f", "u", "n", "c", "t", "i", "o", "n", " ", " ", " ", " ", " ",
       " ", " ", "\n", " ", " ", " ", " ", "(", " ", " ", " ", " ", " ", "$", "f", "i",
       "r", "s", "t", " ", " ", " ", ",", " ", " ", "\n", " ", " ", " ", "s", "e", "c",
       "o", "n", "d", "\n", ")", "{", " ", " ", " ", "}">>,
     \* 'function Constructor($logger, $uhr, someConfigValue) {\n}'
     <<"f", "u", "n", "c", "t", "i", "o", "n", " ", "C", "o", "n", "s", "t", "r", "u",
       "c", "t", "o", "r", "(", "$", "l", "o", "g", "g", "e", "r", ",", " ", "$", "u",
       "h", "r", ",", " ", "s", "o", "m", "e", "C", "o", "n", "f", "i", "g", "V", "a",
       "l", "u", "e", ")", " ", "{", "\n", "}">>,
     \* 'function Nested(first(second) {}', no declaration: '(' follows a parameter name
     <<"f", "u", "n", "c", "t", "i", "o", "n", " ", "N", "e", "s", "t", "e", "d", "(",
       "f", "i", "r", "s", "t", "(", "s", "e", "c", "o", "n", "d", ")", " ", "{", "}">>}

\* what a generated source text is put together from: the keyword, a space, the
\* punctuation, an identifier character, the sigil, and a character no state accepts
Pieces == {KEYWORDS_FUNCTION, <<" ">>, <<"(">>, <<")">>, <<",">>, <<"a">>, <<"$">>, <<"{">>}

RECURSIVE Concat(_)
Concat(pieces) == IF pieces = <<>> THEN <<>> ELSE Head(pieces) \o Concat(Tail(pieces))

GeneratedSources == {Concat(pieces) : pieces \in UNION {[1..n -> Pieces] : n \in 0..MaxPieces}}

Sources == SampleSources \cup GeneratedSources

\* new ConstructorTokenizer(source), also with no source at all
InitTokenizer ==
    /\ registrations = [l \in Locators |-> [t \in Types |-> [has |-> FALSE, list |-> <<>>]]]
    /\ descriptors = <<>>
    /\ heap = <<>>
    /\ hist = [l \in Locators |-> [t \in Types |-> NoHistory]]
    /\ \E constructorSource \in Sources \cup {NullValue} :
          tokenizer = ConstructorTokenizer(constructorSource)
    /\ tokens = <<>>

Terminal(state) == state = END \/ state = ILLEGAL

\* tokenizer.next()
NextToken ==
    /\ Cardinality({i \in 1..Len(tokens) : Terminal(tokens[i].state)}) < MaxRepeat
    /\ LET n == next(tokenizer)
       IN /\ tokenizer' = n.tk
          /\ tokens' = Append(tokens, n.token)
    /\ UNCHANGED <<registrations, descriptors, heap, hist>>

NextTokenizer == NextToken

SpecTokenizer == InitTokenizer /\ [][NextTokenizer]_vars

----------------------------------------------------------------------------
(* What the history says of a type name and of a returned instance *)

Live(l, t) == hist[l][t].live
Newest(l, t) == Live(l, t)[Len(Live(l, t))]
\* the i-th most recent registration
Recent(l, t, i) == Live(l, t)[Len(Live(l, t)) - i + 1]
NeverRegistered(l, t) == Live(l, t) = <<>> /\ ~hist[l][t].unregistered
Constructed(h, d) == {i \in 1..Len(h) : h[i].by = d}

\* the instance id of heap h is the registered instance itself, or was constructed by
\* the registered implementation for that very descriptor
FromRegistration(h, id, r) ==
    IF r.op = "registerInstance"
    THEN id = r.instance
    ELSE id \in 1..Len(h) /\ h[id].cls = r.impl /\ h[id].by = r.d

----------------------------------------------------------------------------
(* Claims *)

\* C1: resolve(type) returns the instance of the most recently registered descriptor
\* of that type (registering A then B, resolve returns an instance of B, never of A),
\* and it does return one when that implementation's constructor cannot fail.
C1_ResolveMostRecent ==
    \A l \in Locators, t \in Types :
        Live(l, t) # <<>> =>
            LET o == resolve(State, l, t, 1)
            IN /\ o.err = "none" =>
                    /\ Len(o.ret) = 1
                    /\ FromRegistration(o.s.heap, o.ret[1], Newest(l, t))
               /\ Newest(l, t).impl # "Cat" => o.err = "none"

C1_Witness ==
    \E l \in Locators, t \in Types :
        /\ Len(Live(l, t)) = 2
        /\ Live(l, t)[1].op = "register" /\ Live(l, t)[2].op = "register"
        /\ Live(l, t)[1].impl = "Cat" /\ Live(l, t)[2].impl = "Plain"
        /\ Constructed(heap, Live(l, t)[2].d) # {}

\* C2: resolveAll(type) returns exactly one instance per descriptor registered for the
\* type since the last unregister, the i-th result coming from the i-th most recent
\* registration; registrations under other type names contribute nothing.
C2_ResolveAllOnePerDescriptor ==
    \A l \in Locators, t \in Types :
        LET o == resolveAll(State, l, t, 1)
        IN o.err = "none" =>
              /\ Len(o.ret) = Len(Live(l, t))
              /\ \A i \in 1..Len(o.ret) : FromRegistration(o.s.heap, o.ret[i], Recent(l, t, i))

C2_Witness ==
    \E l \in Locators, t \in Types :
        /\ Len(Live(l, t)) = 2
        /\ Live(l, t)[1].impl # Live(l, t)[2].impl
        /\ Constructed(heap, Live(l, t)[1].d) # {}
        /\ Constructed(heap, Live(l, t)[2].d) # {}
        /\ resolveAll(State, l, t, 1).err = "none"

\* C3: a descriptor registered with isSingleton = true is constructed at most once, and
\* every resolve made while it is the front descriptor returns that one instance.
C3_SingletonSameInstance ==
    /\ \A d \in 1..Len(descriptors) :
          descriptors[d].isSingleton => Cardinality(Constructed(heap, d)) <= 1
    /\ \A l \in Locators, t \in Types :
          (Live(l, t) # <<>> /\ Newest(l, t).op = "register" /\ Newest(l, t).single) =>
              LET o == resolve(State, l, t, 1)
                  d == Newest(l, t).d
              IN o.err = "none" =>
                    /\ o.s.heap[o.ret[1]].by = d
                    /\ o.s.descriptors[d].singleInstance = o.ret[1]
                    /\ Constructed(heap, d) # {} => (o.ret[1] \in Constructed(heap, d) /\ o.s = State)

C3_Witness ==
    \E l \in Locators, t \in Types :
        /\ Live(l, t) # <<>> /\ Newest(l, t).op = "register" /\ Newest(l, t).single
        /\ Constructed(heap, Newest(l, t).d) # {}
        /\ resolve(State, l, t, 1).ret = <<descriptors[Newest(l, t).d].singleInstance>>

\* C4: a descriptor registered with isSingleton false or omitted constructs a new
\* instance at every resolve and at its position of every resolveAll (an instance no
\* earlier call returned), and its singleInstance stays unset.
C4_TransientNewInstance ==
    /\ \A l \in Locators, t \in Types : \A i \in 1..Len(Live(l, t)) :
          (Live(l, t)[i].op = "register" /\ ~Live(l, t)[i].single) =>
              descriptors[Live(l, t)[i].d].singleInstance = NULL
    /\ \A l \in Locators, t \in Types :
          (Live(l, t) # <<>> /\ Newest(l, t).op = "register" /\ ~Newest(l, t).single) =>
              LET o == resolve(State, l, t, 1)
              IN o.err = "none" =>
                    /\ o.ret[1] > Len(heap)
                    /\ o.s.descriptors[Newest(l, t).d].singleInstance = NULL
    /\ \A l \in Locators, t \in Types :
          LET o == resolveAll(State, l, t, 1)
          IN o.err = "none" =>
                \A i \in 1..Len(o.ret) :
                    (Recent(l, t, i).op = "register" /\ ~Recent(l, t, i).single) =>
                        /\ o.ret[i] > Len(heap)
                        /\ \A j \in 1..Len(o.ret) : j # i => o.ret[j] # o.ret[i]
                        /\ o.s.descriptors[Recent(l, t, i).d].singleInstance = NULL

C4_Witness ==
    \E l \in Locators, t \in Types :
        /\ Live(l, t) # <<>> /\ Newest(l, t).op = "register" /\ ~Newest(l, t).single
        /\ Cardinality(Constructed(heap, Newest(l, t).d)) = 2

\* C5: registerInstance(type, obj) makes resolve(type) return obj itself, constructing
\* nothing, until a later registration shadows it; after registerInstance of obj1 then
\* obj2, resolveAll(type) returns exactly [obj2, obj1].
C5_RegisterInstanceIdentity ==
    \A l \in Locators, t \in Types :
        /\ (Live(l, t) # <<>> /\ Newest(l, t).op = "registerInstance") =>
              LET o == resolve(State, l, t, 1)
              IN o.err = "none" /\ o.ret = <<Newest(l, t).instance>> /\ o.s = State
        /\ (Live(l, t) # <<>> /\ \A i \in 1..Len(Live(l, t)) : Live(l, t)[i].op = "registerInstance") =>
              LET o == resolveAll(State, l, t, 1)
              IN /\ o.err = "none" /\ o.s = State
                 /\ o.ret = [i \in 1..Len(Live(l, t)) |-> Recent(l, t, i).instance]

C5_Witness ==
    \E l \in Locators, t \in Types :
        /\ Len(Live(l, t)) = 2
        /\ Live(l, t)[1].op = "registerInstance" /\ Live(l, t)[2].op = "registerInstance"
        /\ Live(l, t)[1].instance # Live(l, t)[2].instance
        /\ resolveAll(State, l, t, 1).ret = <<Live(l, t)[2].instance, Live(l, t)[1].instance>>

\* C6: after unregister(type), and until a new registration of the type, resolve(type)
\* and resolveAll(type) fail with the not-registered error.
C6_UnregisterThenNotRegistered ==
    \A l \in Locators, t \in Types :
        (hist[l][t].unregistered /\ Live(l, t) = <<>>) =>
            /\ resolve(State, l, t, 1).err = "notRegistered"
            /\ resolveAll(State, l, t, 1).err = "notRegistered"

C6_Witness ==
    \E l \in Locators, t \in Types :
        /\ hist[l][t].unregistered /\ Live(l, t) = <<>>
        /\ hist[l][t].removed = 2
        /\ \E d1, d2 \in 1..Len(descriptors) :
              descriptors[d1].Implementation = "Object" /\ descriptors[d2].Implementation # "Object"

\* C7: resolve and resolveAll of a type name that was never registered fail with the
\* not-registered error, return no instance, construct nothing and leave the registry
\* as it was.
C7_NeverRegisteredFails ==
    \A l \in Locators, t \in Types :
        NeverRegistered(l, t) =>
            /\ resolve(State, l, t, 1) = Throw(State, "notRegistered")
            /\ resolveAll(State, l, t, 1) = Throw(State, "notRegistered")

C7_Witness ==
    \E l \in Locators, t, u \in Types :
        /\ NeverRegistered(l, t)
        /\ Live(l, u) # <<>> /\ heap # <<>>
        /\ resolve(State, l, t, 1).err = "notRegistered"

\* C8: a type name whose key is absent and one whose key maps to an empty sequence are
\* indistinguishable: from two locators that differ only in that, every call returns
\* the same result or the same error, and the two locators again differ at most in that.
SameLists(s1, s2) ==
    \A l \in Locators, t \in Types : s1.registrations[l][t].list = s2.registrations[l][t].list
SameOutcome(o1, o2) ==
    /\ o1.ret = o2.ret /\ o1.err = o2.err
    /\ o1.s.heap = o2.s.heap /\ o1.s.descriptors = o2.s.descriptors
    /\ SameLists(o1.s, o2.s)
\* the locator state with the key of type name t removed
Absent(l, t) == [State EXCEPT !.registrations[l][t].has = FALSE]

C8_AbsentSameAsEmpty ==
    \A l \in Locators, t \in Types :
        registrations[l][t] = [has |-> TRUE, list |-> <<>>] =>
            LET other == Absent(l, t)
            IN \A type \in TypeArgs :
                /\ SameOutcome(resolve(State, l, type, 1), resolve(other, l, type, 1))
                /\ SameOutcome(resolveAll(State, l, type, 1), resolveAll(other, l, type, 1))
                /\ SameOutcome(unregister(State, l, type), unregister(other, l, type))
                /\ \A instance \in 0..Len(heap) :
                      SameOutcome(registerInstance(State, l, type, instance),
                                  registerInstance(other, l, type, instance))
                /\ \A implementation \in ImplArgs, isSingleton \in SingletonArgs :
                      SameOutcome(register(State, l, type, implementation, isSingleton),
                                  register(other, l, type, implementation, isSingleton))

C8_Witness ==
    \E l \in Locators, t, u \in Types :
        /\ registrations[l][t] = [has |-> TRUE, list |-> <<>>]
        /\ registrations[l][u] = [has |-> FALSE, list |-> <<>>]
        /\ hist[l][t].removed > 0

\* C10: every instance a resolve or resolveAll call constructs, the nested ones
\* included, is constructed with exactly one argument: the locator the call was made on.
C10_LocatorIsTheOnlyArgument ==
    \A l \in Locators, t \in Types :
        /\ LET o == resolve(State, l, t, 1)
           IN \A i \in (Len(heap) + 1)..Len(o.s.heap) : o.s.heap[i].args = <<l>>
        /\ LET o == resolveAll(State, l, t, 1)
           IN \A i \in (Len(heap) + 1)..Len(o.s.heap) : o.s.heap[i].args = <<l>>

C10_Witness ==
    \E i, j \in 1..Len(heap) :
        /\ heap[i].by > 0 /\ heap[i].args = <<1>>
        /\ heap[j].by > 0 /\ heap[j].args = <<2>>

\* the parameter names the two constructors declare, as their source text reads
BerryDependency == <<"$", "b", "e", "r", "r", "y">>
Declared(constructor) ==
    IF constructor = "Berry" THEN <<BerryTypeParam>> ELSE <<BerryDependency, NameParam>>

\* the argument of the history's registration r for the declared name
LiteralArgument(r, name) ==
    IF name \in DOMAIN r.parameters THEN ValueArg(r.parameters[name]) ELSE UndefinedArg

\* resolving the type t does not run into a constructor that depends on itself
Resolvable(t) == Live(1, t) # <<>> /\ Newest(1, t).impl # "Pet"

\* C9: on the parameter-injecting locator, resolve(type) after register(type,
\* implementation, parameters) yields an instance built by implementation whose
\* argument list has one entry per declared parameter name, in declared order: the
\* entry of a dependency parameter ($berry) is the instance that resolving the
\* sigil-stripped name (berry) yields, the entry of any other parameter is the value
\* stored under that name in the registered parameters (undefined when there is
\* none).  Stated for the most recent registration of every type, whenever the
\* dependency can be resolved and no singleton instance is cached yet; the instances
\* already constructed for live registrations have the same shape.
C9_ResolveInjectsParameters ==
    /\ \A t \in Types :
          (/\ Live(1, t) # <<>>
           /\ Newest(1, t).op = "register"
           /\ descriptors[Newest(1, t).d].singleInstance = NULL
           /\ Newest(1, t).impl = "Pet" => (t # BerryType /\ Resolvable(BerryType)))
          => LET r == Newest(1, t)
                 o == resolveDI(State, 1, t, 1)
                 dep == resolveDI(State, 1, BerryType, 2)
             IN /\ o.err = "none"
                /\ Len(o.ret) = 1
                /\ o.ret[1] = Len(o.s.heap)
                /\ o.ret[1] > Len(heap)
                /\ LET h == o.s.heap[o.ret[1]]
                   IN /\ h.cls = r.impl
                      /\ h.by = r.d
                      /\ Len(h.args) = Len(Declared(r.impl))
                      /\ \A k \in 1..Len(Declared(r.impl)) :
                            IF Declared(r.impl)[k] = BerryDependency
                            THEN /\ h.args[k] = InstanceArg(dep.ret[1])
                                 /\ FromRegistration(o.s.heap, h.args[k].id, Newest(1, BerryType))
                            ELSE h.args[k] = LiteralArgument(r, Declared(r.impl)[k])
    /\ \A t \in Types : \A n \in 1..Len(Live(1, t)) :
          LET r == Live(1, t)[n]
          IN r.op = "register" =>
                \A i \in Constructed(heap, r.d) :
                    /\ heap[i].cls = r.impl
                    /\ Len(heap[i].args) = Len(Declared(r.impl))
                    /\ \A k \in 1..Len(Declared(r.impl)) :
                          IF Declared(r.impl)[k] = BerryDependency
                          THEN /\ heap[i].args[k].kind = "instance"
                               /\ heap[i].args[k].id \in 1..(i - 1)
                          ELSE heap[i].args[k] = LiteralArgument(r, Declared(r.impl)[k])

\* a Pet was resolved: its first argument is a Berry instance, its second the name
C9_Witness ==
    \E t \in Types : \E n \in 1..Len(Live(1, t)) : \E i \in Constructed(heap, Live(1, t)[n].d) :
        /\ Live(1, t)[n].impl = "Pet"
        /\ heap[i].cls = "Pet"
        /\ Len(heap[i].args) = 2
        /\ heap[i].args[1].kind = "instance"
        /\ heap[heap[i].args[1].id].cls = "Berry"
        /\ heap[i].args[2] = ValueArg("Tom")

\* C11: each descriptor's singleInstance is assigned at most once, and once set it is
\* never changed to another value and never cleared, over every sequence of calls and
\* also when a constructor calls resolve through the locator it receives.
\* _createInstance assigns singleInstance right after every construction it completes
\* for a singleton descriptor, so the assignments to a descriptor's singleInstance are
\* the instances constructed for it.
C11_SingleInstanceSetOnce ==
    /\ [](\A d \in 1..Len(descriptors) :
             descriptors[d].isSingleton => Cardinality(Constructed(heap, d)) <= 1)
    /\ [][\A d \in 1..Len(descriptors) :
             descriptors[d].singleInstance # NULL
                => descriptors'[d].singleInstance = descriptors[d].singleInstance]_vars

\* the registration o of a type that has descriptors added one descriptor in front and
\* left the rest of the state as it was; what the history says of the descriptors
\* registered before still reads in them
AddedInFront(o, l, t) ==
    /\ o.err = "none"
    /\ Len(o.s.descriptors) = Len(descriptors) + 1
    /\ o.s.registrations[l][t].list = <<Len(descriptors) + 1>> \o registrations[l][t].list
    /\ \A l2 \in Locators, t2 \in Types :
          <<l2, t2>> # <<l, t>> => o.s.registrations[l2][t2] = registrations[l2][t2]
    /\ \A d \in 1..Len(descriptors) : o.s.descriptors[d] = descriptors[d]
    /\ o.s.heap = heap
    /\ \A i \in 1..Len(Live(l, t)) :
          LET r == Recent(l, t, i)
              d == o.s.registrations[l][t].list[i + 1]
          IN /\ d = r.d
             /\ o.s.descriptors[d].isSingleton = r.single
             /\ r.op = "register" => o.s.descriptors[d].Implementation = r.impl
             /\ r.op = "registerInstance" => o.s.descriptors[d].singleInstance = r.instance
    /\ LET all == resolveAll(o.s, l, t, 1)
       IN all.err = "none" =>
             \A k \in 1..Len(registrations[l][t].list) :
                LET d == registrations[l][t].list[k]
                IN descriptors[d].singleInstance # NULL =>
                      all.ret[k + 1] = descriptors[d].singleInstance

\* C12: register and registerInstance on a type name that already has descriptors only
\* add one new descriptor at the front: the existing descriptors keep their order, their
\* implementation, their isSingleton flag and their singleInstance, so a singleton
\* cached before it was shadowed is still returned, one position later, by resolveAll.
C12_RegisterOnlyAddsInFront ==
    \A l \in Locators, t \in Types :
        Live(l, t) # <<>> =>
            /\ \A implementation \in Functions, isSingleton \in SingletonArgs :
                  AddedInFront(register(State, l, t, implementation, isSingleton), l, t)
            /\ \A instance \in 1..Len(heap) :
                  AddedInFront(registerInstance(State, l, t, instance), l, t)

\* a cached singleton was shadowed by a later registration of its type
C12_Witness ==
    \E l \in Locators, t \in Types :
        /\ Len(Live(l, t)) = 2
        /\ Live(l, t)[1].op = "register" /\ Live(l, t)[1].single
        /\ Constructed(heap, Live(l, t)[1].d) # {}
        /\ registrations[l][t].list = <<Live(l, t)[2].d, Live(l, t)[1].d>>
        /\ resolveAll(State, l, t, 1).err = "none"
        /\ resolveAll(State, l, t, 1).ret[2] = descriptors[Live(l, t)[1].d].singleInstance

\* C13 as claimed: a resolve(type) call that fails leaves the registry and every
\* descriptor exactly as they were; no descriptor's singleInstance is set by it.
C13_FailedResolveChangesNothing ==
    \A t \in TypeArgs :
        LET o == resolveDI(State, 1, t, 1)
        IN o.err # "none" =>
              /\ o.s.registrations = registrations
              /\ o.s.descriptors = descriptors

\* the descriptor d was constructed to the end by the call that led from heap h to s
ConstructedBy(s, h, d) ==
    /\ descriptors[d].isSingleton
    /\ descriptors[d].singleInstance = NULL
    /\ s.descriptors[d] = [descriptors[d] EXCEPT !.singleInstance = s.descriptors[d].singleInstance]
    /\ s.descriptors[d].singleInstance \in (Len(h) + 1)..Len(s.heap)
    /\ s.heap[s.descriptors[d].singleInstance].by = d
    /\ s.heap[s.descriptors[d].singleInstance].cls = descriptors[d].constructor

\* C13: a resolve(type) call that fails leaves the set of type names and every sequence
\* as they were, adds no descriptor, and leaves every descriptor whose construction it
\* did not complete as it was, the front descriptor of the type among them; a singleton
\* dependency that the call constructed to the end before it failed keeps the instance
\* the call cached in it.
C13_FailedResolveKeepsUnfinishedDescriptors ==
    \A t \in TypeArgs :
        LET o == resolveDI(State, 1, t, 1)
        IN o.err # "none" =>
              /\ o.s.registrations = registrations
              /\ Len(o.s.descriptors) = Len(descriptors)
              /\ \A d \in 1..Len(descriptors) :
                    o.s.descriptors[d] = descriptors[d] \/ ConstructedBy(o.s, heap, d)
              /\ (t \in Types /\ registrations[1][t].list # <<>>) =>
                    LET d == registrations[1][t].list[1]
                    IN o.s.descriptors[d] = descriptors[d]

\* a resolve that fails on its second dependency after it cached the first
C13_Witness ==
    \E t \in Types :
        LET o == resolveDI(State, 1, t, 1)
        IN /\ Live(1, t) # <<>>
           /\ Newest(1, t).impl = "Home"
           /\ o.err = "notRegistered"
           /\ \E d \in 1..Len(descriptors) :
                 o.s.descriptors[d] # descriptors[d] /\ ConstructedBy(o.s, heap, d)

\* the call with outcome o failed and left the locators' state as it was
FailedUntouched(o) == o.err # "none" /\ o.s = State

\* C14: register, registerInstance, resolve, resolveAll and unregister each fail with an
\* error when the type name is not a string, and the registry (its type names and
\* every sequence) is then unchanged.
C14_NonStringTypeFails ==
    \A l \in Locators :
        /\ \A implementation \in ImplArgs, isSingleton \in SingletonArgs :
              FailedUntouched(register(State, l, NullValue, implementation, isSingleton))
        /\ \A implementation \in Functions, isSingleton \in SingletonArgs :
              register(State, l, NullValue, implementation, isSingleton).err = "notString"
        /\ \A instance \in 0..Len(heap) :
              /\ FailedUntouched(registerInstance(State, l, NullValue, instance))
              /\ registerInstance(State, l, NullValue, instance).err = "notString"
        /\ FailedUntouched(resolve(State, l, NullValue, 1))
        /\ resolve(State, l, NullValue, 1).err = "notString"
        /\ FailedUntouched(resolveAll(State, l, NullValue, 1))
        /\ resolveAll(State, l, NullValue, 1).err = "notString"
        /\ FailedUntouched(unregister(State, l, NullValue))
        /\ unregister(State, l, NullValue).err = "notString"

\* a locator that holds registrations of both kinds and a cached instance, on which
\* the calls with a type name that is no string fail
C14_Witness ==
    \E t \in Types :
        /\ Len(Live(1, t)) = 2
        /\ Live(1, t)[1].op = "registerInstance"
        /\ Live(1, t)[2].op = "register"
        /\ Constructed(heap, Live(1, t)[2].d) # {}
        /\ unregister(State, 1, NullValue).err = "notString"
        /\ register(State, 1, NullValue, "Plain", "true").err = "notString"

\* C15: register(type, implementation) fails with an error when implementation is not
\* a function; no descriptor is added and no key is created, so that resolve and
\* resolveAll of the type behave afterwards as if register had not been called.
C15_NonFunctionImplementationFails ==
    \A l \in Locators, t \in TypeArgs, isSingleton \in SingletonArgs :
        LET o == register(State, l, t, "#null", isSingleton)
        IN /\ o.err = "notFunction"
           /\ o.s.descriptors = descriptors
           /\ o.s.registrations = registrations
           /\ resolve(o.s, l, t, 1) = resolve(State, l, t, 1)
           /\ resolveAll(o.s, l, t, 1) = resolveAll(State, l, t, 1)

\* a type name that is no key yet, on a locator that holds another type
C15_Witness ==
    \E t, t2 \in Types :
        /\ ~registrations[1][t].has
        /\ Live(1, t2) # <<>>
        /\ register(State, 1, t, "#null", "true").err = "notFunction"
        /\ resolve(State, 1, t, 1).err = "notRegistered"

\* C16: every register or registerInstance call that ends in an error, registerInstance
\* with a valid type name and a null instance included, leaves the registry without any
\* partial mutation: the set of keys and every sequence are those before the call.
C16_FailedRegistrationChangesNothing ==
    \A l \in Locators, t \in TypeArgs :
        /\ \A implementation \in ImplArgs, isSingleton \in SingletonArgs :
              LET o == register(State, l, t, implementation, isSingleton)
              IN o.err # "none" => o.s.registrations = registrations
        /\ \A instance \in 0..Len(heap) :
              LET o == registerInstance(State, l, t, instance)
              IN o.err # "none" => o.s.registrations = registrations

\* C17: a type name must be a non-empty string: register, registerInstance, resolve,
\* resolveAll and unregister called with the empty string as type name fail with the
\* invalid-type-name error and do not touch the registry.
C17_EmptyTypeNameFails ==
    /\ \A implementation \in {"Plain"}, isSingleton \in SingletonArgs :
          LET o == register(State, 1, EmptyType, implementation, isSingleton)
          IN o.err = "notString" /\ o.s.registrations = registrations
    /\ \A instance \in 1..Len(heap) :
          LET o == registerInstance(State, 1, EmptyType, instance)
          IN o.err = "notString" /\ o.s.registrations = registrations
    /\ LET o == resolve(State, 1, EmptyType, 1)
       IN o.err = "notString" /\ o.s.registrations = registrations
    /\ LET o == resolveAll(State, 1, EmptyType, 1)
       IN o.err = "notString" /\ o.s.registrations = registrations
    /\ LET o == unregister(State, 1, EmptyType)
       IN o.err = "notString" /\ o.s.registrations = registrations

\* C18 as claimed: unregister(type) fails with the not-registered error when the type
\* name is absent from the registry or its sequence is empty.
C18_UnregisterFailsWhenNotRegistered ==
    \A l \in Locators, t \in Types :
        throwIfNoType(State, l, t) => unregister(State, l, t).err = "notRegistered"

\* C18: unregister(type) with a string type name never fails: when the type name is
\* absent from the registry or its sequence is empty it returns normally, the type is
\* not registered afterwards (resolve and resolveAll fail with the not-registered
\* error), and the other types, the descriptors and the instances are untouched.
C18_UnregisterNeverFails ==
    \A l \in Locators, t \in Types :
        LET o == unregister(State, l, t)
        IN /\ o.err = "none"
           /\ resolve(o.s, l, t, 1).err = "notRegistered"
           /\ resolveAll(o.s, l, t, 1).err = "notRegistered"
           /\ \A l2 \in Locators, t2 \in Types :
                 <<l2, t2>> # <<l, t>> => o.s.registrations[l2][t2] = registrations[l2][t2]
           /\ o.s.descriptors = descriptors
           /\ o.s.heap = heap
           /\ throwIfNoType(State, l, t) => SameLists(o.s, State)

\* unregister was called for a type that had nothing to remove
C18_Witness ==
    \E t, t2 \in Types :
        /\ hist[1][t].unregistered
        /\ hist[1][t].removed = 0
        /\ Live(1, t) = <<>>
        /\ Live(1, t2) # <<>>

\* C19: the relaxed resolveAll returns an empty sequence, without raising and without
\* touching anything, for a string type name that was never registered or whose
\* registrations were all removed by unregister; it still raises for a type name that
\* is no string; for a registered type it returns what the strict one returns: one
\* instance per registration, the most recent first (and it raises only when a
\* constructor with a dependency is among the registrations).
C19_RelaxedResolveAll ==
    /\ resolveAllDI(State, 1, NullValue, 1) = Throw(State, "notString")
    /\ \A t \in Types :
          LET o == resolveAllDI(State, 1, t, 1)
          IN /\ Live(1, t) = <<>> => o = Return(State, <<>>)
             /\ Live(1, t) # <<>> =>
                   /\ o.err # "none" => \E i \in 1..Len(Live(1, t)) : Live(1, t)[i].impl = "Pet"
                   /\ o.err = "none" =>
                         /\ Len(o.ret) = Len(Live(1, t))
                         /\ \A i \in 1..Len(o.ret) :
                               FromRegistration(o.s.heap, o.ret[i], Recent(1, t, i))

\* every registration of a type was removed, and the relaxed resolveAll returns []
C19_Witness ==
    \E t \in Types :
        /\ hist[1][t].unregistered
        /\ hist[1][t].removed > 0
        /\ Live(1, t) = <<>>
        /\ heap # <<>>
        /\ resolveAllDI(State, 1, t, 1) = Return(State, <<>>)

\* C20: resolveInstance(implementation, parameters) never stores a descriptor and
\* never caches its result: after the call the type names and every type's sequence
\* are unchanged and no descriptor was added, the instance returned is a new one, and
\* a second call with the same implementation returns another; a dependency parameter
\* holds what resolve of the sigil-stripped name yields, any other parameter the value
\* passed under its name.
C20_ResolveInstanceStoresNothing ==
    \A constructor \in ImplArgsDI, parameters \in ParameterArgs :
        LET o == resolveInstanceDI(State, 1, constructor, parameters, 1)
            again == resolveInstanceDI(o.s, 1, constructor, parameters, 1)
            dep == resolveDI(State, 1, BerryType, 2)
        IN /\ o.s.registrations = registrations
           /\ Len(o.s.descriptors) = Len(descriptors)
           /\ o.err = "none" =>
                 /\ o.ret = <<Len(o.s.heap)>>
                 /\ o.ret[1] > Len(heap)
                 /\ again.err = "none"
                 /\ again.ret[1] > Len(o.s.heap)
                 /\ again.s.registrations = registrations
                 /\ Len(again.s.descriptors) = Len(descriptors)
                 /\ LET h == o.s.heap[o.ret[1]]
                    IN /\ h.cls = constructor
                       /\ h.by = 0
                       /\ Len(h.args) = Len(Declared(constructor))
                       /\ \A k \in 1..Len(h.args) :
                             IF Declared(constructor)[k] = BerryDependency
                             THEN dep.err = "none" /\ h.args[k] = InstanceArg(dep.ret[1])
                             ELSE h.args[k] = lookup(parameters, Declared(constructor)[k])
           /\ o.err # "none" =>
                 \/ constructor = "#null"
                 \/ constructor = "Pet" /\ dep.err = o.err

\* resolveInstance built a Pet with its berry injected, and no descriptor holds a Pet
C20_Witness ==
    \E i \in 1..Len(heap) :
        /\ heap[i].cls = "Pet"
        /\ heap[i].by = 0
        /\ heap[i].args[1].kind = "instance"
        /\ heap[heap[i].args[1].id].cls = "Berry"
        /\ \A d \in 1..Len(descriptors) : descriptors[d].constructor # "Pet"
        /\ \A t \in Types : Len(registrations[1][t].list) = Len(Live(1, t))

\* the states that one call of a program on the locator l leaves
StatesAfterCallOn(l) ==
    {register(State, l, type, implementation, isSingleton).s :
        type \in TypeArgs, implementation \in ImplArgs, isSingleton \in SingletonArgs}
    \cup {registerInstance(State, l, type, instance).s : type \in TypeArgs, instance \in 0..Len(heap)}
    \cup {resolve(State, l, type, 1).s : type \in TypeArgs}
    \cup {resolveAll(State, l, type, 1).s : type \in TypeArgs}
    \cup {unregister(State, l, type).s : type \in TypeArgs}

\* the descriptors the lists of the locator l hold
DescriptorsOf(s, l) ==
    UNION {{s.registrations[l][t].list[k] : k \in 1..Len(s.registrations[l][t].list)} : t \in Types}

\* the outcome o2, of a call made after a call that left the heap h2, is the outcome
\* o1 of the same call made from a state with the heap h1: the same error, and
\* position by position the same existing instance or a new one of the same class
SameResult(h1, o1, h2, o2) ==
    /\ o1.err = o2.err
    /\ Len(o1.ret) = Len(o2.ret)
    /\ \A i \in 1..Len(o1.ret) :
          IF o1.ret[i] <= Len(h1)
          THEN o2.ret[i] = o1.ret[i]
          ELSE /\ o2.ret[i] > Len(h2)
               /\ o2.s.heap[o2.ret[i]].cls = o1.s.heap[o1.ret[i]].cls
               /\ o2.s.heap[o2.ret[i]].args = o1.s.heap[o1.ret[i]].args

\* C21: two locators never share registry state: whatever call is made on one
\* locator, the type names, sequences and descriptors (singleton caches included) of
\* the other are as before, and every resolve and resolveAll on the other returns
\* what it would have returned before (the same error, the same cached or registered
\* instances, new instances of the same implementations).
\* Stated of the calls on locator 2 as locator 1 sees them: the calls of a program
\* treat both locators alike, so the reachable states are the same with the two
\* locators exchanged.
C21_LocatorsShareNothing ==
    \A l, other \in Locators :
        (l = 2 /\ other = 1) =>
            \A s \in StatesAfterCallOn(l) \ {State} :
                /\ s.registrations[other] = registrations[other]
                /\ \A d \in DescriptorsOf(State, other) : s.descriptors[d] = descriptors[d]
                /\ \A type \in Types :
                      /\ SameResult(heap, resolve(State, other, type, 1),
                                    s.heap, resolve(s, other, type, 1))
                      /\ SameResult(heap, resolveAll(State, other, type, 1),
                                    s.heap, resolveAll(s, other, type, 1))

\* one locator holds a cached singleton of a type that the other never registered,
\* and the other holds a registration of its own
C21_Witness ==
    \E l, other \in Locators, t, u \in Types :
        /\ l # other
        /\ Live(l, t) # <<>>
        /\ Newest(l, t).op = "register"
        /\ descriptors[Newest(l, t).d].singleInstance # NULL
        /\ NeverRegistered(other, t)
        /\ Live(other, u) # <<>>
        /\ resolve(State, other, t, 1).err = "notRegistered"
        /\ resolve(State, l, t, 1).err = "none"

----------------------------------------------------------------------------
(* Claims about the tokenizer and the parameter names read with it *)

STATES == {ILLEGAL, NO, IDENTIFIER, FUNCTION, PARENTHESES_OPEN, PARENTHESES_CLOSE, COMMA, END}

IsToken(token) ==
    /\ DOMAIN token = {"state", "start", "end"}
    /\ token.state \in STATES
    /\ token.start \in Nat
    /\ token.end \in Nat

\* C22: for every source text, the empty one included, every next() call returns a
\* token (the call made in this state does, and so did every call made so far), and
\* ILLEGAL and END are absorbing: every call after one that returned ILLEGAL returns
\* ILLEGAL, every call after one that returned END returns END.
C22_NextAlwaysReturnsAndTerminalAbsorbs ==
    /\ IsToken(next(tokenizer).token)
    /\ \A i \in 1..Len(tokens) : IsToken(tokens[i])
    /\ \A i, j \in 1..Len(tokens) :
          (i < j /\ Terminal(tokens[i].state)) => tokens[j].state = tokens[i].state
    /\ \A i \in 1..Len(tokens) :
          Terminal(tokens[i].state) => next(tokenizer).token.state = tokens[i].state

\* a text that starts with white space and is no declaration was scanned from the
\* initial state: the first call returned ILLEGAL, and so did the two after it
C22_Witness ==
    /\ Len(tokens) = MaxRepeat
    /\ \A i \in 1..Len(tokens) : tokens[i].state = ILLEGAL
    /\ Len(tokenizer.source) > 1
    /\ WHITESPACE_TEST(tokenizer.source[1])
    /\ tokenizer.currentState = NO

\* C23: once a next() call has returned a terminal token (END or ILLEGAL), every later
\* call returns that same token, whose start is the tokenizer's current index and
\* whose end is the current index + 1, and leaves the tokenizer where it is; also
\* when ILLEGAL was returned by the first call, from the initial state.
\* next() returns ILLEGAL from the initial state without storing it in _currentState:
\* the token's end is _currentEnd, and a second call takes its start after the white
\* space the first one skipped.
C23_TerminalTokenRepeats ==
    /\ \A i, j \in 1..Len(tokens) :
          (i < j /\ Terminal(tokens[i].state)) => tokens[j] = tokens[i]
    /\ (tokens # <<>> /\ Terminal(tokens[Len(tokens)].state)) =>
          LET n == next(tokenizer)
          IN /\ n.token = tokens[Len(tokens)]
             /\ n.token.start = tokenizer.currentIndex
             /\ n.token.end = tokenizer.currentIndex + 1
             /\ n.tk = tokenizer

\* the token states that may follow a token of the given state
Successors(state) ==
    CASE state = FUNCTION -> {PARENTHESES_OPEN, IDENTIFIER, ILLEGAL}
      [] state = PARENTHESES_OPEN -> {IDENTIFIER, PARENTHESES_CLOSE, ILLEGAL}
      [] state = IDENTIFIER -> {PARENTHESES_OPEN, PARENTHESES_CLOSE, COMMA, ILLEGAL}
      [] state = COMMA -> {IDENTIFIER, ILLEGAL}
      [] state = PARENTHESES_CLOSE -> {END}
      [] state = END -> {END}
      [] state = ILLEGAL -> {ILLEGAL}
      [] OTHER -> {}

\* C24: the states of the tokens that successive next() calls return follow only these
\* transitions: the first token is FUNCTION or ILLEGAL and no token is NO; FUNCTION is
\* followed by PARENTHESES_OPEN, IDENTIFIER or ILLEGAL; PARENTHESES_OPEN by IDENTIFIER,
\* PARENTHESES_CLOSE or ILLEGAL; IDENTIFIER by PARENTHESES_OPEN, PARENTHESES_CLOSE,
\* COMMA or ILLEGAL; COMMA by IDENTIFIER or ILLEGAL; PARENTHESES_CLOSE by END.  Stated
\* of the tokens returned so far and of the token the call made in this state returns.
C24_TokenStatesFollowTransitions ==
    LET all == Append(tokens, next(tokenizer).token)
    IN /\ all[1].state \in {FUNCTION, ILLEGAL}
       /\ \A i \in 1..Len(all) : all[i].state # NO
       /\ \A i \in 1..(Len(all) - 1) : all[i + 1].state \in Successors(all[i].state)

\* one scan went through every state: a named declaration with two parameters
C24_Witness ==
    /\ Len(tokens) >= 8
    /\ [i \in 1..8 |-> tokens[i].state] =
          <<FUNCTION, IDENTIFIER, PARENTHESES_OPEN, IDENTIFIER, COMMA, IDENTIFIER,
            PARENTHESES_CLOSE, END>>

\* source.substring(token.start, token.end)
Lexeme(token) == SubSeq(tokenizer.source, token.start + 1, token.end)

\* the substring of the token is the lexeme of its state; an identifier is a run of
\* identifier characters that the character at its end does not continue
IsLexeme(token) ==
    /\ token.start <= token.end
    /\ token.end <= Len(tokenizer.source)
    /\ CASE token.state = FUNCTION -> Lexeme(token) = KEYWORDS_FUNCTION
         [] token.state = PARENTHESES_OPEN -> Lexeme(token) = <<"(">>
         [] token.state = PARENTHESES_CLOSE -> Lexeme(token) = <<")">>
         [] token.state = COMMA -> Lexeme(token) = <<",">>
         [] token.state = IDENTIFIER ->
               /\ Lexeme(token) # <<>>
               /\ \A k \in 1..Len(Lexeme(token)) : IDENTIFIER_TEST(Lexeme(token)[k])
               /\ ~IDENTIFIER_TEST(charAt(tokenizer.source, token.end))
         [] OTHER -> FALSE

\* the run of identifier characters does not start before the token does
StartsRun(token) == ~IDENTIFIER_TEST(charAt(tokenizer.source, token.start - 1))

\* the characters between the end of a token and the start of the one after it are
\* white space, and a token contains none
WhitespaceOutside(all) ==
    /\ \A i \in 1..Len(all) :
          ~Terminal(all[i].state) =>
              \A k \in 1..Len(Lexeme(all[i])) : ~WHITESPACE_TEST(Lexeme(all[i])[k])
    /\ \A i \in 1..(Len(all) - 1) :
          ~Terminal(all[i + 1].state) =>
              \A k \in all[i].end..(all[i + 1].start - 1) :
                  WHITESPACE_TEST(charAt(tokenizer.source, k))

\* C25 as claimed: for every non-terminal token returned, the substring [start, end)
\* of the source is exactly the lexeme of its state: the keyword for FUNCTION, the one
\* character for PARENTHESES_OPEN, PARENTHESES_CLOSE and COMMA, and for IDENTIFIER a
\* non-empty maximal run of identifier characters (the characters just before start
\* and at end are no identifier characters); white space between lexemes belongs to
\* no token.
C25_TokensAreMaximalLexemes ==
    LET all == Append(tokens, next(tokenizer).token)
    IN /\ \A i \in 1..Len(all) :
             ~Terminal(all[i].state) =>
                 /\ IsLexeme(all[i])
                 /\ all[i].state = IDENTIFIER => StartsRun(all[i])
       /\ WhitespaceOutside(all)

\* C25, amended: the same, but an identifier that follows the keyword with no white
\* space between them (functiona) starts where the keyword ends: the character just
\* before its start is the keyword's last one.
C25_TokensAreLexemes ==
    LET all == Append(tokens, next(tokenizer).token)
    IN /\ \A i \in 1..Len(all) :
             ~Terminal(all[i].state) =>
                 /\ IsLexeme(all[i])
                 /\ all[i].state = IDENTIFIER =>
                       \/ StartsRun(all[i])
                       \/ i > 1 /\ all[i - 1].state = FUNCTION /\ all[i - 1].end = all[i].start
       /\ WhitespaceOutside(all)

\* a text whose name follows the keyword with nothing between them was scanned up to
\* its closing parenthesis
C25_Witness ==
    /\ Len(tokens) >= 2
    /\ tokens[1].state = FUNCTION
    /\ tokens[2].state = IDENTIFIER
    /\ tokens[1].end = tokens[2].start
    /\ \E i \in 1..Len(tokens) : tokens[i].state = PARENTHESES_CLOSE

\* _getParameterNames of a constructor whose toString() is the given source
ParameterNamesIn(source) == getParameterNamesLoop(ConstructorTokenizer(source), FALSE, <<>>)

\* the scan of the program has returned its first terminal token
Scanned == \E i \in 1..Len(tokens) : Terminal(tokens[i].state)

\* the positions, among the tokens returned, of the identifiers after the first
\* PARENTHESES_OPEN token
ParameterTokens ==
    {i \in 1..Len(tokens) :
        /\ tokens[i].state = IDENTIFIER
        /\ \E j \in 1..(i - 1) : tokens[j].state = PARENTHESES_OPEN}

\* C26: the parameter names extracted from a source are, in scan order, exactly the
\* substrings of the IDENTIFIER tokens that its scan returns after the first
\* PARENTHESES_OPEN token: an identifier before the parameter list is not among them,
\* 'function (a, b) {}' yields [a, b], and a parameter list whose '(' (the first
\* PARENTHESES_OPEN token) is directly followed by ')' yields the empty sequence.  The scan is the one the program made with next(), the names are
\* those the extractor reads from the same source.
C26_ParameterNamesAreIdentifiersAfterOpen ==
    /\ Scanned =>
          LET names == ParameterNamesIn(tokenizer.source)
          IN /\ Len(names) = Cardinality(ParameterTokens)
             /\ \A i \in ParameterTokens :
                   names[Cardinality({j \in ParameterTokens : j <= i})] = Lexeme(tokens[i])
    /\ ParameterNamesIn(SourceTwoParameters) = <<(<<"a">>), (<<"b">>)>>
    /\ ParameterNamesIn(SourceWithoutArguments) = <<>>
    /\ \A i \in 1..(Len(tokens) - 1) :
          (/\ tokens[i].state = PARENTHESES_OPEN
           /\ \A j \in 1..(i - 1) : tokens[j].state # PARENTHESES_OPEN
           /\ tokens[i + 1].state = PARENTHESES_CLOSE)
              => ParameterNamesIn(tokenizer.source) = <<>>

\* a declaration with a name and two parameters was scanned to END: the extractor
\* returns the two parameters, not the name
C26_Witness ==
    /\ Scanned
    /\ Len(tokens) > 2
    /\ tokens[2].state = IDENTIFIER
    /\ Cardinality(ParameterTokens) = 2
    /\ Len(ParameterNamesIn(tokenizer.source)) = 2
    /\ \E i \in 1..Len(tokens) : tokens[i].state = END

\* the position of the first terminal token among those returned (0: none yet)
FirstTerminal ==
    IF Scanned
    THEN CHOOSE i \in 1..Len(tokens) :
            Terminal(tokens[i].state) /\ \A j \in 1..(i - 1) : ~Terminal(tokens[j].state)
    ELSE 0

\* C27: when the scan of a source ends in ILLEGAL instead of END, the extractor still
\* returns a sequence of names, exactly those gathered before the ILLEGAL token (one
\* per IDENTIFIER token after the first PARENTHESES_OPEN token, in order): none for
\* the empty source, for no source, for a source without the keyword and for
\* 'function {', and [param] for '   function   ( param, {', which breaks after a comma.
C27_IllegalScanYieldsNamesSoFar ==
    /\ (Scanned /\ tokens[FirstTerminal].state = ILLEGAL) =>
          LET names == ParameterNamesIn(tokenizer.source)
          IN /\ DOMAIN names = 1..Cardinality(ParameterTokens)
             /\ \A i \in ParameterTokens :
                   /\ i < FirstTerminal
                   /\ names[Cardinality({j \in ParameterTokens : j <= i})] = Lexeme(tokens[i])
             /\ tokens[1].state = ILLEGAL => names = <<>>
    /\ ParameterNamesIn(<<>>) = <<>>
    /\ ParameterNamesIn(NullValue) = <<>>
    /\ ParameterNamesIn(SourceMalformed) = <<>>
    /\ ParameterNamesIn(SourceAfterComma) = <<(<<"p", "a", "r", "a", "m">>)>>

\* a scan broke off after a comma: the parameter before the comma is returned
C27_Witness ==
    /\ Scanned
    /\ FirstTerminal > 1
    /\ tokens[FirstTerminal].state = ILLEGAL
    /\ tokens[FirstTerminal - 1].state = COMMA
    /\ Len(ParameterNamesIn(tokenizer.source)) >= 1

\* C29: resolving a singleton descriptor whose singleInstance is set returns that
\* instance without resolving any of its parameters: the call succeeds and returns
\* the cached instance whatever became of the types it depends on (unregistered,
\* registered again), it constructs nothing and sets no descriptor's cache.  Stated of
\* resolve for the front descriptor of every type and of resolveAll when every
\* descriptor of the type holds its instance.
C29_CachedSingletonSkipsParameters ==
    \A t \in Types :
        /\ (/\ Live(1, t) # <<>>
            /\ descriptors[Newest(1, t).d].isSingleton
            /\ descriptors[Newest(1, t).d].singleInstance # NULL)
           => resolveDI(State, 1, t, 1) =
                 Return(State, <<descriptors[Newest(1, t).d].singleInstance>>)
        /\ (/\ Live(1, t) # <<>>
            /\ \A i \in 1..Len(Live(1, t)) :
                  /\ descriptors[Live(1, t)[i].d].isSingleton
                  /\ descriptors[Live(1, t)[i].d].singleInstance # NULL)
           => resolveAllDI(State, 1, t, 1) =
                 Return(State, [i \in 1..Len(Live(1, t)) |->
                                   descriptors[Recent(1, t, i).d].singleInstance])

\* a Pet, which depends on berry, was resolved as a singleton and berry was
\* unregistered afterwards: resolve still returns the Pet
C29_Witness ==
    \E t \in Types :
        /\ Live(1, t) # <<>>
        /\ Newest(1, t).impl = "Pet"
        /\ Newest(1, t).single
        /\ descriptors[Newest(1, t).d].singleInstance # NULL
        /\ heap[descriptors[Newest(1, t).d].singleInstance].cls = "Pet"
        /\ hist[1][BerryType].unregistered
        /\ Live(1, BerryType) = <<>>
        /\ resolveDI(State, 1, BerryType, 1).err = "notRegistered"
        /\ resolveDI(State, 1, t, 1).err = "none"

\* C28: scanning 'function named($dep, literal) {}' yields the parameter names
\* [$dep, literal], and resolving a descriptor with that parameter list resolves $dep
\* as the dependency type dep and takes literal from the descriptor's parameters: the
\* instance is built with the instance that resolve('dep') yields, which comes from
\* the newest registration of dep and not from the value the parameters hold under
\* $dep, and with the value the parameters hold under literal (undefined if none); if
\* dep cannot be resolved, the call fails as resolve('dep') does.
C28_NamedDeclarationResolves ==
    /\ getParameterNames("Named") = <<DepParam, LiteralParam>>
    /\ \A t \in TypesNamed : \A n \in 1..Len(Live(1, t)) :
          (Live(1, t)[n].op = "register" /\ Live(1, t)[n].impl = "Named") =>
              descriptors[Live(1, t)[n].d].parameterNames = <<DepParam, LiteralParam>>
    /\ \A t \in TypesNamed :
          (/\ Live(1, t) # <<>>
           /\ Newest(1, t).op = "register"
           /\ Newest(1, t).impl = "Named"
           /\ descriptors[Newest(1, t).d].singleInstance = NULL)
          => LET r == Newest(1, t)
                 o == resolveDI(State, 1, t, 1)
                 dep == resolveDI(State, 1, DepType, 2)
             IN IF dep.err = "none"
                THEN /\ o.err = "none"
                     /\ o.ret = <<Len(o.s.heap)>>
                     /\ o.ret[1] > Len(heap)
                     /\ o.s.heap[o.ret[1]].cls = "Named"
                     /\ o.s.heap[o.ret[1]].args =
                           <<InstanceArg(dep.ret[1]), LiteralArgument(r, LiteralParam)>>
                     /\ FromRegistration(o.s.heap, dep.ret[1], Newest(1, DepType))
                ELSE /\ o.err = dep.err
                     /\ Len(o.s.heap) = Len(heap)

\* the constructor was registered with a value under literal and resolved: its
\* arguments are a Berry registered as dep and that value
C28_Witness ==
    \E t \in TypesNamed : \E i \in 1..Len(heap) :
        /\ Live(1, t) # <<>>
        /\ Newest(1, t).impl = "Named"
        /\ heap[i].by = Newest(1, t).d
        /\ heap[i].cls = "Named"
        /\ heap[i].args[1].kind = "instance"
        /\ heap[heap[i].args[1].id].cls = "Berry"
        /\ heap[i].args[2] = ValueArg("value")
        /\ Live(1, DepType) # <<>>

\* a name that begins with the sigil followed by one or more identifier characters
\* (word characters and the sigil, as IDENTIFIER_TEST has them)
SigilAndIdentifier(name) == Len(name) >= 2 /\ name[1] = "$" /\ IDENTIFIER_TEST(name[2])

\* the parameters objects a descriptor of a scanned constructor is resolved with
ScannedParameterArgs ==
    {NoParameters,
     (<<"a">> :> "one") @@ (<<"$">> :> "two") @@ (<<"$", "$", "a">> :> "three")
        @@ (<<"$", "a">> :> "four")}

\* C30: a parameter name is treated as a dependency if and only if it begins with the
\* sigil followed by one or more identifier characters, the identifier characters
\* being the word characters and the sigil itself; every other name, the sigil alone
\* included, is looked up in the parameters, and a name the parameters do not hold
\* yields undefined, not an error.  Stated of every parameter name of the scanned
\* source, resolved on a locator that has no type registered: a dependency then fails
\* as not registered, a literal yields its value or undefined.
\* DEPENDENCY_REGEXP is /^\$\w+/: after the sigil it takes word characters only.
C30_DependencyIffSigilAndIdentifier ==
    LET names == ParameterNamesIn(tokenizer.source)
    IN \A k \in 1..Len(names), parameters \in ScannedParameterArgs :
          LET registration == [constructor |-> "Scanned",
                               parameterNames |-> <<names[k]>>,
                               parameters |-> parameters,
                               isSingleton |-> FALSE,
                               singleInstance |-> NULL]
              p == getParameters(State, 1, registration, 1, <<>>, 1)
          IN IF SigilAndIdentifier(names[k])
             THEN getDependencyName(names[k]) = Tail(names[k]) /\ p.err = "notRegistered"
             ELSE getDependencyName(names[k]) = <<>>
                  /\ p = Return(State, <<lookup(parameters, names[k])>>)

----------------------------------------------------------------------------
(* Claims about the dependencies a resolution reaches *)

\* what the dependencies of registration have in store for the call that constructs it,
\* read off the registrations as they are in s: "none" when every dependency it reaches
\* can be built, "notRegistered" when the first one that cannot be built names, or
\* leads to, a type without registrations, "stackOverflow" when it leads back to a
\* descriptor that is being constructed (visited)
RECURSIVE Fate(_, _, _, _)
Fate(s, l, registration, visited) ==
    IF registration.isSingleton /\ registration.singleInstance # NULL THEN "none"
    ELSE LET names == registration.parameterNames
             fateOf(k) ==
                 IF ~DEPENDENCY_REGEXP(names[k]) THEN "none"
                 ELSE LET type == Tail(names[k])
                      IN IF \/ type \notin DOMAIN s.registrations[l]
                            \/ Len(s.registrations[l][type].list) = 0
                         THEN "notRegistered"
                         ELSE LET front == s.registrations[l][type].list[1]
                              IN IF front \in visited THEN "stackOverflow"
                                 ELSE Fate(s, l, s.descriptors[front], visited \cup {front})
             failing == {k \in 1..Len(names) : fateOf(k) # "none"}
         IN IF failing = {} THEN "none"
            ELSE fateOf(CHOOSE k \in failing : \A j \in failing : k <= j)

\* C31: when a dependency reached while resolving, at any depth, names a type that is
\* not registered, resolve, resolveAll and resolveInstance fail with the not-registered
\* error and return no instance; no instance built on the way got a missing argument
\* in the place of a dependency, and the outer implementation is not constructed.
C31_MissingDependencyFails ==
    LET Fails(o) ==
            /\ o.err = "notRegistered"
            /\ o.ret = <<>>
            /\ \A i \in (Len(heap) + 1)..Len(o.s.heap) :
                  LET names == getParameterNames(o.s.heap[i].cls)
                  IN \A k \in 1..Len(names) :
                        DEPENDENCY_REGEXP(names[k]) => o.s.heap[i].args[k].kind = "instance"
        FateOf(d) == Fate(State, 1, descriptors[d], {d})
    IN /\ \A type \in Types :
             LET list == registrations[1][type].list
                 o == resolveDI(State, 1, type, 1)
             IN (Len(list) > 0 /\ FateOf(list[1]) = "notRegistered")
                   => Fails(o) /\ Constructed(o.s.heap, list[1]) = Constructed(heap, list[1])
       /\ \A type \in Types :
             LET list == registrations[1][type].list
                 failing == {k \in 1..Len(list) : FateOf(list[k]) # "none"}
                 o == resolveAllDI(State, 1, type, 1)
             IN \A k \in failing :
                   ((\A j \in failing : k <= j) /\ FateOf(list[k]) = "notRegistered")
                      => Fails(o) /\ Constructed(o.s.heap, list[k]) = Constructed(heap, list[k])
       /\ \A constructor \in FunctionsDI :
             LET registration == [constructor |-> constructor, parameters |-> NoParameters,
                                  parameterNames |-> getParameterNames(constructor),
                                  isSingleton |-> FALSE, singleInstance |-> NULL]
                 o == resolveInstanceDI(State, 1, constructor, NoParameters, 1)
             IN Fate(State, 1, registration, {}) = "notRegistered"
                   => Fails(o) /\ \A i \in (Len(heap) + 1)..Len(o.s.heap) : o.s.heap[i].by # 0

\* cat is a Pet, which needs a berry; berry is a Named, which needs a dep; no dep is
\* registered and resolve('cat') fails two levels down
C31_Witness ==
    /\ Len(registrations[1][CatType].list) > 0
    /\ Len(registrations[1][BerryType].list) > 0
    /\ descriptors[registrations[1][CatType].list[1]].constructor = "Pet"
    /\ descriptors[registrations[1][CatType].list[1]].singleInstance = NULL
    /\ descriptors[registrations[1][BerryType].list[1]].constructor = "Named"
    /\ descriptors[registrations[1][BerryType].list[1]].singleInstance = NULL
    /\ resolveDI(State, 1, CatType, 1).err = "notRegistered"

\* everything the graph of registration's dependencies holds, followed through the front
\* registration of each type whether or not a resolution gets that far: "notRegistered"
\* for a type without registrations, "stackOverflow" for a way back to a descriptor
\* that is being constructed (visited); a cached singleton is a leaf
RECURSIVE Hazards(_, _, _, _)
Hazards(s, l, registration, visited) ==
    IF registration.isSingleton /\ registration.singleInstance # NULL THEN {}
    ELSE LET names == registration.parameterNames
             of(k) ==
                 IF ~DEPENDENCY_REGEXP(names[k]) THEN {}
                 ELSE LET type == Tail(names[k])
                      IN IF \/ type \notin DOMAIN s.registrations[l]
                            \/ Len(s.registrations[l][type].list) = 0
                         THEN {"notRegistered"}
                         ELSE LET front == s.registrations[l][type].list[1]
                              IN IF front \in visited THEN {"stackOverflow"}
                                 ELSE Hazards(s, l, s.descriptors[front], visited \cup {front})
         IN UNION {of(k) : k \in 1..Len(names)}

\* the resolve calls nested in one another while registration is constructed, where
\* all its dependencies can be built: a dependency costs the call that resolves it and
\* what its front registration costs; a cached singleton costs nothing
RECURSIVE PathDepth(_, _, _)
PathDepth(s, l, registration) ==
    IF registration.isSingleton /\ registration.singleInstance # NULL THEN 0
    ELSE LET names == registration.parameterNames
             of(k) ==
                 IF ~DEPENDENCY_REGEXP(names[k]) THEN 0
                 ELSE 1 + PathDepth(s, l,
                             s.descriptors[s.registrations[l][Tail(names[k])].list[1]])
             depths == {of(k) : k \in 1..Len(names)} \cup {0}
         IN CHOOSE n \in depths : \A k \in depths : k <= n

\* C32: resolve(type) ends with an instance or the not-registered error when no way
\* through the front registrations leads back to a descriptor under construction, and
\* it nests exactly as many resolve calls as the path is deep: started with room for
\* that many calls it succeeds, with less it exhausts the stack.  When there is a way
\* back through descriptors without a cached instance, nothing guards the recursion:
\* no instance is returned, and a resolution that runs into the cycle exhausts the
\* stack whatever room it started with.
C32_TerminatesUnlessCyclic ==
    \A type \in Types :
       LET list == registrations[1][type].list
           front == descriptors[list[1]]
           hazards == Hazards(State, 1, front, {list[1]})
           o == resolveDI(State, 1, type, 1)
       IN Len(list) > 0 =>
             /\ "stackOverflow" \notin hazards => o.err \in {"none", "notRegistered"}
             /\ hazards = {} =>
                   /\ o.err = "none" /\ Len(o.ret) = 1
                   /\ \A start \in 1..(MaxDepth + 1) :
                         resolveDI(State, 1, type, start).err = "stackOverflow"
                            <=> start + PathDepth(State, 1, front) > MaxDepth
             /\ "stackOverflow" \in hazards => o.err # "none" /\ o.ret = <<>>
             /\ Fate(State, 1, front, {list[1]}) = "stackOverflow" =>
                   \A start \in 1..(MaxDepth + 1) :
                      resolveDI(State, 1, type, start).err = "stackOverflow"

\* cat is a Pet and berry a Berry, neither cached: resolve('cat') nests two calls, and
\* started with room for one only it exhausts the stack
C32_Witness ==
    /\ Len(registrations[1][CatType].list) > 0
    /\ Len(registrations[1][BerryType].list) > 0
    /\ descriptors[registrations[1][CatType].list[1]].constructor = "Pet"
    /\ descriptors[registrations[1][CatType].list[1]].singleInstance = NULL
    /\ descriptors[registrations[1][BerryType].list[1]].constructor = "Berry"
    /\ descriptors[registrations[1][BerryType].list[1]].singleInstance = NULL
    /\ PathDepth(State, 1, descriptors[registrations[1][CatType].list[1]]) = 1
    /\ resolveDI(State, 1, CatType, MaxDepth - 1).err = "none"
    /\ resolveDI(State, 1, CatType, MaxDepth).err = "stackOverflow"

----------------------------------------------------------------------------
(* Claims about how far a scan goes *)

\* C35: for a source of length n, next() returns END or ILLEGAL within n + 2 calls
\* from the initial state, so the loop of the extractor ends (with no more names than
\* the source has characters); a call that returns a token that is not terminal has
\* moved the index forward, and the index never exceeds n.
C35_ScanEndsWithinLengthPlusTwo ==
    LET n == Len(tokenizer.source)
        call == next(tokenizer)
    IN /\ tokenizer.currentIndex <= n
       /\ call.tk.currentIndex <= n
       /\ ~Terminal(call.token.state) => call.tk.currentIndex > tokenizer.currentIndex
       /\ \A i \in 1..Len(tokens) :
             (\A j \in 1..i : ~Terminal(tokens[j].state)) => i < n + 2
       /\ Len(tokens) >= n + 2 => \E i \in 1..(n + 2) : Terminal(tokens[i].state)
       /\ Len(ParameterNamesIn(tokenizer.source)) <= n

\* a scan went through a declaration with two parameters to its END, the index at the
\* length of the source
C35_Witness ==
    /\ Len(tokens) >= 7
    /\ tokens[Len(tokens)].state = END
    /\ Cardinality({i \in 1..Len(tokens) : tokens[i].state = IDENTIFIER}) >= 2
    /\ tokenizer.currentIndex = Len(tokenizer.source)

OpenTokens == {i \in 1..Len(tokens) : tokens[i].state = PARENTHESES_OPEN}

\* C37: in a scan the PARENTHESES_OPEN token is returned at most once, and only
\* directly after FUNCTION or after the one IDENTIFIER that is the declaration's name
\* (the identifier directly after FUNCTION); so a scan that returns it after a
\* parameter name does not end in END.
C37_OneOpeningParenthesis ==
    /\ Cardinality(OpenTokens) <= 1
    /\ \A i \in OpenTokens :
          /\ i > 1
          /\ \/ tokens[i - 1].state = FUNCTION
             \/ i > 2 /\ tokens[i - 1].state = IDENTIFIER /\ tokens[i - 2].state = FUNCTION
    /\ (\E i \in OpenTokens : i - 1 \in ParameterTokens) => tokens[Len(tokens)].state # END

\* C37, amended: PARENTHESES_OPEN is returned only directly after FUNCTION or directly
\* after an IDENTIFIER, the declaration's name or a parameter name, and so possibly
\* more than once; every name the extractor returns is an identifier between the first
\* PARENTHESES_OPEN token and, when the scan ends in END, the closing parenthesis
\* before END.
C37_OpeningParenthesisAfterKeywordOrIdentifier ==
    /\ \A i \in OpenTokens :
          i > 1 /\ tokens[i - 1].state \in {FUNCTION, IDENTIFIER}
    /\ Scanned =>
          /\ Len(ParameterNamesIn(tokenizer.source)) = Cardinality(ParameterTokens)
          /\ \A i \in ParameterTokens :
                /\ \E j \in OpenTokens :
                      j < i /\ tokens[j].end <= tokens[i].start /\ \A k \in OpenTokens : j <= k
                /\ tokens[FirstTerminal].state = END =>
                      /\ tokens[FirstTerminal - 1].state = PARENTHESES_CLOSE
                      /\ tokens[i].end <= tokens[FirstTerminal - 1].start

\* a scan returned two PARENTHESES_OPEN tokens, the second one after a parameter name,
\* and ended in END; the extractor returns the names on both sides of it
C37_Witness ==
    /\ Cardinality(OpenTokens) = 2
    /\ tokens[2].state = IDENTIFIER
    /\ \E i \in OpenTokens : i - 1 \in ParameterTokens
    /\ Scanned /\ tokens[FirstTerminal].state = END
    /\ Len(ParameterNamesIn(tokenizer.source)) = 2

----------------------------------------------------------------------------
(* Claims about the registrations an unregister removed *)

\* the descriptors no sequence holds any longer
Removed(s) ==
    {d \in 1..Len(s.descriptors) :
        \A l \in Locators : \A t \in DOMAIN s.registrations[l] :
           \A k \in 1..Len(s.registrations[l][t].list) : s.registrations[l][t].list[k] # d}

\* C34: registrations made after unregister(type) start a fresh sequence: resolveAll
\* returns only instances of the descriptors registered since, in their order; no
\* call constructs a removed descriptor, changes it, or returns or injects an instance
\* that was constructed for one, not even for a later registration of the same
\* implementation (unless the program passed that very object to registerInstance
\* and the registration is still there).
C34_FreshSequenceAfterUnregister ==
    \A t \in Types :
       LET given == {id \in 1..Len(heap) :
                        \E u \in Types : \E k \in 1..Len(Live(1, u)) :
                           Live(1, u)[k].op = "registerInstance" /\ Live(1, u)[k].instance = id}
           untouched(o) ==
               \A d \in Removed(State) :
                  /\ o.s.descriptors[d] = descriptors[d]
                  /\ Constructed(o.s.heap, d) = Constructed(heap, d)
                  /\ \A i \in 1..Len(o.ret) : o.ret[i] \notin Constructed(heap, d) \ given
                  /\ \A i \in (Len(heap) + 1)..Len(o.s.heap) :
                        o.s.heap[i].berry \notin Constructed(heap, d) \ given
           one == resolve(State, 1, t, 1)
           all == resolveAll(State, 1, t, 1)
       IN /\ untouched(one)
          /\ untouched(all)
          /\ (hist[1][t].unregistered /\ all.err = "none") =>
                /\ Len(all.ret) = Len(Live(1, t))
                /\ \A i \in 1..Len(all.ret) :
                      FromRegistration(all.s.heap, all.ret[i], Recent(1, t, i))
          /\ (hist[1][t].unregistered /\ Live(1, t) = <<>>) => all.err = "notRegistered"

\* a singleton was registered, resolved and unregistered; the same implementation was
\* registered as a singleton again and resolved: it got an instance of its own
C34_Witness ==
    \E t \in Types, d \in Removed(State) :
       /\ hist[1][t].unregistered
       /\ Len(Live(1, t)) = 1
       /\ descriptors[d].isSingleton /\ Constructed(heap, d) # {}
       /\ descriptors[Newest(1, t).d].Implementation = descriptors[d].Implementation
       /\ descriptors[Newest(1, t).d].isSingleton
       /\ descriptors[Newest(1, t).d].singleInstance # NULL
       /\ descriptors[Newest(1, t).d].singleInstance # descriptors[d].singleInstance
       /\ resolveAll(State, 1, t, 1).ret = <<descriptors[Newest(1, t).d].singleInstance>>

----------------------------------------------------------------------------
(* Claims about constructors that register and unregister *)

\* C33: resolveAll(type) returns exactly one instance for each descriptor that was in
\* the type's sequence when the call began, in front-to-back order, and constructs
\* each descriptor at most once, also when a constructor the call runs calls register,
\* registerInstance or unregister for the same type.
C33_ResolveAllSeesTheSequenceItBeganWith ==
    LET list == registrations[1][CatType].list
        o == resolveAll(State, 1, CatType, 1)
        of(id, d) == IF descriptors[d].singleInstance # NULL
                     THEN id = descriptors[d].singleInstance
                     ELSE id \in Constructed(o.s.heap, d) \ Constructed(heap, d)
    IN o.err = "none" =>
          /\ Len(o.ret) = Len(list)
          /\ \A k \in 1..Len(list) :
                /\ of(o.ret[k], list[k])
                /\ Cardinality(Constructed(o.s.heap, list[k]) \ Constructed(heap, list[k])) <= 1
          /\ \A j, k \in 1..Len(list) :
                (j < k /\ o.ret[j] > Len(heap) /\ o.ret[k] > Len(heap)) => o.ret[j] < o.ret[k]

============================================================================
